---------------------------- MODULE Spec2Model ----------------------------
(***************************************************************************)
(* The server-side move-search engine of Hukum Chess                       *)
(* (src/unnamed/part_000): getStockfishMove / evaluatePosition /           *)
(* solvePuzzle on top of                                                   *)
(* findBestMove, minimax (alpha-beta) and evaluateBoard, driving a         *)
(* chess.js position object through moves(), move(), undo(), isGameOver(), *)
(* isCheckmate(), isDraw(), board(), history() and turn().                 *)
(*                                                                         *)
(* Scores are kept in hundredths of a point so that every term of          *)
(* evaluateBoard (0.2 * 0.1 = 0.02 is the smallest) is an integer.         *)
(*                                                                         *)
(* The chess.js position is modelled on the full 8x8 board for kings,      *)
(* queens, rooks, bishops, knights and pawns.  The inputs are positions    *)
(* without castling rights, without an en-passant square and without a     *)
(* pawn on its initial rank, so castling, double pushes and en passant     *)
(* never arise.  Threefold repetition needs eight plies on top of a        *)
(* freshly loaded position and is beyond every search depth explored.      *)
(* moves() lists the legal moves in one fixed order per position (by       *)
(* from-square, to-square, promotion piece); the engine relies on the      *)
(* order being fixed, not on which order it is.                            *)
(*                                                                         *)
(* The search is a step machine: stack holds one frame per running call    *)
(* of findBestMove / minimax, and each action is one stretch of code       *)
(* between two points where the position object changes hands.             *)
(*                                                                         *)
(* Around the engine: the game hook and its page (useChessGame.ts,         *)
(* Home.tsx), the record store and its routes (storage.ts, part_001), the  *)
(* puzzle shootout dialog (PuzzleShootoutModal.tsx), the countdown         *)
(* (useTimer, part_005) and the client engine (lib/stockfish.ts).  Each    *)
(* has its own variables, its own actions and its own specification; the   *)
(* actions of one leave the variables of the others unchanged.             *)
(***************************************************************************)
EXTENDS Integers, Sequences, FiniteSets, TLC, Bags

VARIABLES
    chess,      \* the Chess instance the running call works on
    phase,      \* "idle" | "search" | "done": position of the API call
    call,       \* which exported function was called
    depth,      \* the depth argument of getStockfishMove
    random,     \* the random source: its stream of draws and the next one
    stack,      \* call stack: findBestMove frame at the bottom, minimax above
    ret,        \* value returned by the callee that just finished
    result,     \* value the exported function resolved with
    root,       \* the position as constructed from the FEN argument
    legal,      \* the legal moves of root, in generation order
    rootLog,    \* root moves applied so far, with the score each received
    lastEval,   \* the latest evaluateBoard call: its position and its value
    pruned,     \* TRUE once a cutoff has left sibling moves unsearched
    fen,        \* the fen argument: what kind of string, and what it describes
    mateIn,     \* the mateIn argument of solvePuzzle
    solution,   \* the solution argument of solvePuzzle
    timeLimit,  \* the timeLimit argument of getStockfishMove / solvePuzzle
    response,   \* what the /api/ai route answered: status and JSON body
    visited,    \* chess.move calls made by the running call
    served,     \* calls this server process has finished before this one
    \* the state of the useChessGame hook, useChessGame.ts lines 35-55
    gameState,          \* "not_started" | "in_progress" | "player_win" |
                        \* "ai_win" | "tie"
    playerSide,         \* "white" | "black"
    playerMoves,
    aiMoves,
    playerScore,
    aiScore,
    freeHitAvailable,
    gameId,             \* 0 stands for null
    gameChess,          \* the hook's chess instance: side to move, checkmate
    inFlight,           \* the bag of makeAIMove calls waiting for
                        \* getAIMove, each with what its closure, created
                        \* with the state of an earlier render, will do
    patched,            \* the body of the latest PATCH /api/games/:id sent
    \* the state of the page, pages/Home.tsx lines 12-13
    showWinModal,
    showPuzzleModal,
    \* the record store of the server, server/storage.ts lines 30-37
    games,              \* Map of games by key
    moveHistory,        \* Map moves: the recorded moves, in order of id
    puzzles,            \* Map of puzzles by key
    currentGameId,
    currentMoveId,
    currentPuzzleId,
    handlers,           \* POST /api/games/:id/moves handlers waiting at an
                        \* await, each with the game it has read
    reply,              \* the latest response of a route of the store:
                        \* its status and what the claims read of its
                        \* body; of a solve request, the id it named
    \* the state of the shootout dialog, PuzzleShootoutModal.tsx lines
    \* 328-335
    currentPuzzleIndex,
    isProcessing,
    userWon,
    aiLost,
    puzzleSolved,       \* <<>> stands for null
    pending,            \* the submitPuzzle call under way: the request it
                        \* waits for and the currentPuzzleIndex it read
    asked,              \* the puzzles the server was asked to solve
    answers,            \* the results the server has answered with
    \* the state of a countdown, hooks/useTimer, part_005 lines 80-87
    timeRemaining,
    isActive,           \* the isActive the hook was last rendered with
    timerRef,           \* whether an interval is set
    due,                \* timeouts made to call onTimeUp, not yet run
    reached,            \* countdowns that have reached 0
    timeUps,            \* calls of onTimeUp
    \* the state of the client engine, client/src/lib/stockfish.ts
    stockfishInstance,  \* "none" | "loaded" | "failed"
    isStockfishReady,
    messageListeners,   \* the listeners added, each by the getAIMove call
                        \* it belongs to
    requests,           \* the getAIMove calls made, in order
    searches            \* the positions of the go commands not answered

\* the arguments besides depth, and the count of earlier calls
args == <<fen, mateIn, solution, timeLimit, served>>

engine == <<chess, phase, call, depth, random, stack, ret, result, root,
            legal, rootLog, lastEval, pruned, args, response, visited>>

hook == <<gameState, playerSide, playerMoves, aiMoves, playerScore, aiScore,
          freeHitAvailable, gameId, gameChess, inFlight, patched,
          showWinModal, showPuzzleModal>>

store == <<games, moveHistory, puzzles, currentGameId, currentMoveId,
           currentPuzzleId, handlers, reply>>

shootout == <<currentPuzzleIndex, isProcessing, userWon, aiLost,
              puzzleSolved, pending, asked, answers>>

timer == <<timeRemaining, isActive, timerRef, due, reached, timeUps>>

worker == <<stockfishInstance, isStockfishReady, messageListeners, requests,
            searches>>

\* the state outside the engine and the game page
others == <<store, shootout, timer, worker>>

\* the state outside the record store
notStore == <<engine, hook, shootout, timer, worker>>

\* the state outside the shootout dialog
notShootout == <<engine, hook, store, timer, worker>>

\* the state outside the countdown
notTimer == <<engine, hook, store, shootout, worker>>

\* the state outside the client engine
notWorker == <<engine, hook, store, shootout, timer>>

vars == <<engine, hook, others>>

---------------------------------------------------------------------------
(* Bounds of the exploration *)

MaxDepth == 3        \* largest depth argument explored
MaxPly == 4          \* moves applied on top of the root before a run is cut
MaxMateIn == 2       \* largest mateIn argument explored
MaxCalls == 2        \* calls one server process serves in a session
MaxMoves == 7        \* largest move counter of the hook followed
MaxInFlight == 2     \* makeAIMove calls followed at once; more are dropped
MaxScore == 2        \* largest score of a side followed
MaxGames == 2        \* games the store is asked to create
MaxPuzzles == 1      \* puzzles the store is asked to create
MaxRecorded == 2     \* moves the store is asked to record
MaxSubmits == 6      \* puzzles the shootout dialog has the AI asked for
MaxTime == 5         \* largest time, in seconds, a countdown is set to
MaxCountdowns == 3   \* countdowns followed to 0
MaxRequests == 3     \* getAIMove calls made to the client engine

---------------------------------------------------------------------------
(* Program constants, part_000 lines 7-29, in hundredths of a point *)

PIECE_VALUES ==
    [t \in {"p", "n", "b", "r", "q", "k"} |->
        CASE t = "p" -> 1 [] t = "n" -> 3 [] t = "b" -> 3
          [] t = "r" -> 5 [] t = "q" -> 9 [] t = "k" -> 0]

\* SQUARE_VALUES in tenths: SQUARE_VALUES[i][j] = SquareTenths[i+1][j+1] / 10
SquareTenths ==
    << <<0, 0, 0, 0, 0, 0, 0, 0>>,
       <<0, 1, 2, 2, 2, 2, 1, 0>>,
       <<0, 2, 3, 4, 4, 3, 2, 0>>,
       <<0, 2, 4, 5, 5, 4, 2, 0>>,
       <<0, 2, 4, 5, 5, 4, 2, 0>>,
       <<0, 2, 3, 4, 4, 3, 2, 0>>,
       <<0, 1, 2, 2, 2, 2, 1, 0>>,
       <<0, 0, 0, 0, 0, 0, 0, 0>> >>

\* CAPTURE_BONUS = 0.5, as hundredths per point of captured material
CAPTURE_BONUS == 50

\* score of a checkmate, 1000 points
MateScore == 1000 * 100

\* stands for JavaScript's Infinity: larger than every score
Infinity == 1000 * 1000 * 100

\* The random source: the values Math.random() * 0.2 - 0.1 takes in
\* successive calls, a stream that repeats.  A value lies in [-0.1, 0.1);
\* <<0>> is the source fixed to 0.
RandomStreams == {<<0>>, <<-10, 9>>, <<9, 0, -10>>}

\* the default timeLimit of getStockfishMove, line 32, in milliseconds
DefaultTimeLimit == 1000

\* The timeLimit arguments explored: the defaults of lines 32 and 51
TimeLimits == {DefaultTimeLimit, 15000}

---------------------------------------------------------------------------
(* The chess.js position object *)

Squares == 0 .. 63
Row(s) == s \div 8          \* index i of chess.board()[i][j]; 0 is rank 8
Col(s) == s % 8             \* index j; 0 is file a
Sq(i, j) == i * 8 + j

Files == <<"a", "b", "c", "d", "e", "f", "g", "h">>
Ranks == <<"8", "7", "6", "5", "4", "3", "2", "1">>
SquareName(s) == Files[Col(s) + 1] \o Ranks[Row(s) + 1]

NoPiece == [type |-> "", color |-> ""]
Piece(t, c) == [type |-> t, color |-> c]
Other(c) == IF c = "w" THEN "b" ELSE "w"

Abs(x) == IF x < 0 THEN -x ELSE x
Max(a, b) == IF a > b THEN a ELSE b
Min(a, b) == IF a < b THEN a ELSE b
Sgn(x) == IF x > 0 THEN 1 ELSE IF x < 0 THEN -1 ELSE 0

\* every square strictly between s and t on a line or diagonal is empty
PathClear(b, s, t) ==
    LET dr == Row(t) - Row(s)
        dc == Col(t) - Col(s)
        n == Max(Abs(dr), Abs(dc))
    IN \A k \in 1 .. (n - 1) :
          b[Sq(Row(s) + k * Sgn(dr), Col(s) + k * Sgn(dc))] = NoPiece

\* the piece on s attacks square t
Attacks(b, s, t) ==
    LET dr == Row(t) - Row(s)
        dc == Col(t) - Col(s)
        p == b[s]
    IN /\ s # t
       /\ CASE p.type = "n" -> {Abs(dr), Abs(dc)} = {1, 2}
            [] p.type = "k" -> Max(Abs(dr), Abs(dc)) = 1
            [] p.type = "r" -> (dr = 0 \/ dc = 0) /\ PathClear(b, s, t)
            [] p.type = "b" -> Abs(dr) = Abs(dc) /\ PathClear(b, s, t)
            [] p.type = "q" -> (dr = 0 \/ dc = 0 \/ Abs(dr) = Abs(dc))
                               /\ PathClear(b, s, t)
            [] p.type = "p" -> Abs(dc) = 1
                               /\ dr = (IF p.color = "w" THEN -1 ELSE 1)
            [] OTHER -> FALSE

\* the king of colour c stands on a square an enemy piece attacks
KingAttacked(b, c) ==
    \E ks \in Squares :
        /\ b[ks] = Piece("k", c)
        /\ \E s \in Squares : b[s].color = Other(c) /\ Attacks(b, s, ks)

MoveRec(c, s, t, b, promo) ==
    [color |-> c, from |-> s, to |-> t, piece |-> b[s].type,
     captured |-> b[t].type, promotion |-> promo]

BoardAfter(b, m) ==
    [b EXCEPT ![m.from] = NoPiece,
              ![m.to] = IF m.promotion # "" THEN Piece(m.promotion, m.color)
                        ELSE Piece(m.piece, m.color)]

BoardBefore(b, m) ==
    [b EXCEPT ![m.from] = Piece(m.piece, m.color),
              ![m.to] = IF m.captured # ""
                        THEN Piece(m.captured, Other(m.color))
                        ELSE NoPiece]

LastRow(c) == IF c = "w" THEN 0 ELSE 7
Promotions == <<"q", "r", "b", "n">>

\* the piece on s may move to t, its own king's safety aside
CanReach(b, s, t) ==
    LET p == b[s]
    IN IF p.type = "p"
       THEN \/ /\ Attacks(b, s, t)
               /\ b[t].color = Other(p.color)
            \/ /\ Col(t) = Col(s)
               /\ Row(t) - Row(s) = (IF p.color = "w" THEN -1 ELSE 1)
               /\ b[t] = NoPiece
       ELSE Attacks(b, s, t) /\ b[t].color # p.color

\* the moves of the piece on s to t: four when a pawn promotes, else one
MovesTo(b, s, t) ==
    IF b[s].type = "p" /\ Row(t) = LastRow(b[s].color)
    THEN [k \in 1 .. 4 |-> MoveRec(b[s].color, s, t, b, Promotions[k])]
    ELSE <<MoveRec(b[s].color, s, t, b, "")>>

\* 64 * from + to of every legal from-to pair of the side c
LegalPairs(b, c) ==
    UNION {{64 * s + t : t \in {x \in Squares :
                /\ CanReach(b, s, x)
                /\ ~KingAttacked(BoardAfter(b, MoveRec(c, s, x, b, "")), c)}}
           : s \in {y \in Squares : b[y].color = c}}

RECURSIVE Generate(_, _)
\* the moves of the pairs in generation order: from-square, to-square,
\* promotion piece
Generate(b, pairs) ==
    IF pairs = {} THEN <<>>
    ELSE LET n == CHOOSE x \in pairs : \A y \in pairs : x <= y
         IN MovesTo(b, n \div 64, n % 64) \o Generate(b, pairs \ {n})

\* chess.moves({ verbose: true }): the legal moves in generation order
moves(c) == Generate(c.board, LegalPairs(c.board, c.turn))

turn(c) == c.turn

\* chess.move(m)
move(c, m) ==
    [board |-> BoardAfter(c.board, m),
     turn |-> Other(c.turn),
     halfMoves |-> IF m.piece = "p" \/ m.captured # "" THEN 0
                   ELSE c.halfMoves + 1,
     history |-> Append(c.history,
                        [move |-> m, turn |-> c.turn,
                         halfMoves |-> c.halfMoves])]

\* chess.undo(): pops the last history entry and reverts it on the board
undo(c) ==
    IF c.history = <<>> THEN c
    ELSE LET old == c.history[Len(c.history)]
         IN [board |-> BoardBefore(c.board, old.move),
             turn |-> old.turn,
             halfMoves |-> old.halfMoves,
             history |-> SubSeq(c.history, 1, Len(c.history) - 1)]

isCheck(c) == KingAttacked(c.board, c.turn)
isCheckmate(c) == isCheck(c) /\ moves(c) = <<>>
isStalemate(c) == ~isCheck(c) /\ moves(c) = <<>>

Occupied(b) == {s \in Squares : b[s] # NoPiece}
SquareColor(s) == (Row(s) + Col(s)) % 2

isInsufficientMaterial(c) ==
    LET occ == Occupied(c.board)
        bishops == {s \in occ : c.board[s].type = "b"}
        knights == {s \in occ : c.board[s].type = "n"}
    IN \/ Cardinality(occ) = 2
       \/ Cardinality(occ) = 3
          /\ Cardinality(bishops) + Cardinality(knights) = 1
       \/ /\ Cardinality(occ) = Cardinality(bishops) + 2
          /\ \A s, t \in bishops : SquareColor(s) = SquareColor(t)

isDraw(c) ==
    \/ c.halfMoves >= 100
    \/ isStalemate(c)
    \/ isInsufficientMaterial(c)

isGameOver(c) == isCheckmate(c) \/ isDraw(c)

---------------------------------------------------------------------------
(* evaluateBoard, part_000 lines 141-187 *)

Sign(c) == IF c = "w" THEN 1 ELSE -1

\* the positional bonus added for both colours alike
SquareScoreUnsigned(b, s) ==
    LET piece == b[s]
        i == Row(s)
        j == Col(s)
        value == PIECE_VALUES[piece.type] * 100 * Sign(piece.color)
        positionValue ==
            SquareTenths[(IF piece.color = "w" THEN i ELSE 7 - i) + 1][j + 1] * 2
    IN IF piece # NoPiece THEN value + positionValue ELSE 0

\* lines 162-167: material and position value of the piece on square s
SquareScore(b, s) ==
    LET piece == b[s]
        i == Row(s)
        j == Col(s)
        value == PIECE_VALUES[piece.type] * 100 * Sign(piece.color)
        positionValue ==
            SquareTenths[(IF piece.color = "w" THEN i ELSE 7 - i) + 1][j + 1]
                * (IF piece.color = "w" THEN 2 ELSE -2)
    IN IF piece # NoPiece THEN value + positionValue ELSE 0

RECURSIVE BoardScore(_, _)
\* lines 157-170: the loop over the 64 squares, taken over the squares of
\* the set todo in increasing order; an empty square adds nothing
BoardScore(b, todo) ==
    IF todo = {} THEN 0
    ELSE LET s == CHOOSE x \in todo : \A y \in todo : x <= y
         IN SquareScore(b, s) + BoardScore(b, todo \ {s})

\* lines 177-184: the bonus for a capture made by the last move
CaptureTerm(c) ==
    IF c.history # <<>> /\ c.history[Len(c.history)].move.captured # ""
    THEN LET lastMove == c.history[Len(c.history)].move
             captureValue == PIECE_VALUES[lastMove.captured]
                                 * Sign(lastMove.color)
         IN captureValue * CAPTURE_BONUS * Sign(lastMove.color)
    ELSE 0

\* the two mate scores exchanged
evaluateBoardMateSwapped(c, rnd) ==
    IF isCheckmate(c) THEN (IF turn(c) = "w" THEN MateScore ELSE -MateScore)
    ELSE IF isDraw(c) THEN 0
    ELSE BoardScore(c.board, Occupied(c.board)) + rnd + CaptureTerm(c)

\* the draw test left out
evaluateBoardNoDraw(c, rnd) ==
    IF isCheckmate(c) THEN (IF turn(c) = "w" THEN -MateScore ELSE MateScore)
    ELSE BoardScore(c.board, Occupied(c.board)) + rnd + CaptureTerm(c)

\* with the check bonus of the client's evaluator, part_003 lines 133-136
evaluateBoardCheckBonus(c, rnd) ==
    IF isCheckmate(c) THEN (IF turn(c) = "w" THEN -MateScore ELSE MateScore)
    ELSE IF isDraw(c) THEN 0
    ELSE BoardScore(c.board, Occupied(c.board)) + rnd + CaptureTerm(c)
           + (IF isCheck(c) THEN (IF turn(c) = "b" THEN 50 ELSE -50) ELSE 0)

\* rnd is the value of Math.random() * 0.2 - 0.1 drawn by this call
evaluateBoard(c, rnd) ==
    IF isCheckmate(c) THEN (IF turn(c) = "w" THEN -MateScore ELSE MateScore)
    ELSE IF isDraw(c) THEN 0
    ELSE BoardScore(c.board, Occupied(c.board)) + rnd + CaptureTerm(c)

---------------------------------------------------------------------------
(* findBestMove and minimax, part_000 lines 68-138 *)

IsCapture(m) == m.captured # ""
NotCapture(m) == m.captured = ""

\* the comparator's sign turned round: quiet moves come first
SortCaptureLast(ms) == SelectSeq(ms, NotCapture) \o SelectSeq(ms, IsCapture)

\* lines 74-78: a stable sort on the key "captures something"
SortCaptureFirst(ms) == SelectSeq(ms, IsCapture) \o SelectSeq(ms, NotCapture)

\* the two initial bounds exchanged
InitialBestSwapped(playerColor) ==
    IF playerColor = "w" THEN Infinity ELSE -Infinity

\* line 70
InitialBest(playerColor) == IF playerColor = "w" THEN -Infinity ELSE Infinity

\* >= and <= in place of > and <: an equal later score replaces the best
ImprovesOrTies(playerColor, score, bestScore) ==
    \/ playerColor = "w" /\ score >= bestScore
    \/ playerColor = "b" /\ score <= bestScore

\* line 91
Improves(playerColor, score, bestScore) ==
    \/ playerColor = "w" /\ score > bestScore
    \/ playerColor = "b" /\ score < bestScore

\* the promotion piece left out of the encoding
UciNoPromotion(m) == SquareName(m.from) \o SquareName(m.to)

\* lines 93 and 100
Uci(m) == SquareName(m.from) \o SquareName(m.to) \o m.promotion

\* the fallback without its moves.length > 0 guard: moves[0] is undefined
\* for an empty list and reading firstMove.from throws a TypeError
FallbackUnguarded(bestMove, ms) ==
    IF bestMove = ""
    THEN (IF Len(ms) > 0 THEN Uci(ms[1]) ELSE "TypeError")
    ELSE bestMove

\* lines 97-103
Fallback(bestMove, ms) ==
    IF bestMove = "" /\ Len(ms) > 0 THEN Uci(ms[1]) ELSE bestMove

\* the comparison turned round
CutoffReversed(alpha, beta) == alpha <= beta

\* lines 123 and 134
Cutoff(alpha, beta) == beta <= alpha

\* the cutoff test placed before the undo: a cut leaves the move applied
UndoUnlessCutoff(c, cut) == IF cut THEN c ELSE undo(c)

\* lines 88, 120 and 131: chess.undo() follows the recursive call at once,
\* before the score is used and whether or not the loop is then cut off
UndoAfterCall(c, cut) == undo(c)

\* line 109
\* the base case met one ply late
BaseCaseOneDeeper(c, d) == d = -1 \/ isGameOver(c)

BaseCase(c, d) == d = 0 \/ isGameOver(c)

Frame(fn, c, d, alpha, beta, isMax, color, ms, pc, best) ==
    [fn |-> fn, depth |-> d, alpha |-> alpha, beta |-> beta,
     isMaximizing |-> isMax, playerColor |-> color, moves |-> ms,
     i |-> 1, pc |-> pc, best |-> best, bestMove |-> "", entry |-> c]

Top == stack[Len(stack)]
Pop == SubSeq(stack, 1, Len(stack) - 1)
SetTop(f) == [stack EXCEPT ![Len(stack)] = f]

---------------------------------------------------------------------------
(* The positions handed to the engine: new Chess(fen), lines 33 and 46 *)

SquareOf(name) == CHOOSE s \in Squares : SquareName(s) = name

\* the position a FEN string describes: placement, side to move, halfmove clock
Chess(placement, side, halfMoves) ==
    [board |-> [s \in Squares |->
                  IF \E p \in placement : SquareOf(p[1]) = s
                  THEN LET p == CHOOSE q \in placement : SquareOf(q[1]) = s
                       IN Piece(p[2], p[3])
                  ELSE NoPiece],
     turn |-> side, halfMoves |-> halfMoves, history |-> <<>>]

RootPositions ==
    { \* a pawn about to promote, mate in one for the side to move
      Chess({<<"g6", "k", "w">>, <<"f7", "p", "w">>, <<"h8", "k", "b">>}, "w", 0),
      Chess({<<"g3", "k", "b">>, <<"f2", "p", "b">>, <<"h1", "k", "w">>}, "b", 0),
      \* a knight with two captures and two quiet moves, pawns that recapture
      Chess({<<"a1", "k", "w">>, <<"a4", "n", "w">>, <<"h8", "k", "b">>,
             <<"b6", "p", "b">>, <<"c5", "p", "b">>}, "w", 0),
      Chess({<<"a8", "k", "b">>, <<"a5", "n", "b">>, <<"h1", "k", "w">>,
             <<"b3", "p", "w">>, <<"c4", "p", "w">>}, "b", 0),
      \* one capture that leaves king and knight against king
      Chess({<<"a1", "k", "w">>, <<"a4", "n", "w">>, <<"h8", "k", "b">>,
             <<"c5", "p", "b">>}, "w", 0),
      \* a stalemate one move away
      Chess({<<"f6", "k", "w">>, <<"g6", "p", "w">>, <<"h8", "k", "b">>}, "w", 0),
      \* the side to move is checkmated
      Chess({<<"g6", "k", "w">>, <<"g7", "q", "w">>, <<"h8", "k", "b">>}, "b", 0),
      Chess({<<"g3", "k", "b">>, <<"g2", "q", "b">>, <<"h1", "k", "w">>}, "w", 0),
      \* the side to move is stalemated
      Chess({<<"f7", "k", "w">>, <<"g6", "p", "w">>, <<"h8", "k", "b">>}, "b", 0),
      \* two plies short of the fifty-move rule
      Chess({<<"a1", "k", "w">>, <<"b1", "n", "w">>, <<"h8", "k", "b">>,
             <<"h7", "n", "b">>}, "w", 98),
      Chess({<<"a1", "k", "w">>, <<"b1", "n", "w">>, <<"h8", "k", "b">>,
             <<"h7", "n", "b">>}, "b", 98),
      \* bare kings: a draw with legal moves
      Chess({<<"a1", "k", "w">>, <<"h8", "k", "b">>}, "w", 0),
      \* the side to move is in check and has one move
      Chess({<<"g6", "k", "w">>, <<"g7", "p", "w">>, <<"h8", "k", "b">>}, "b", 0) }

\* stands for the position when the fen argument describes none
NoPosition == Chess({}, "", 0)

\* The fen arguments: a string that describes a position, a string that
\* does not parse, and the empty or absent string
FenArguments ==
    [kind : {"position"}, position : RootPositions]
        \cup [kind : {"unparseable", "missing"}, position : {NoPosition}]

\* one instance kept for the whole module and used again by later calls
ConstructOnce(f, old) == old

\* lines 33, 46 and 53: new Chess(fen) builds an instance of its own for
\* every call; old is the instance of the call before
Construct(f, old) == f.position

\* lines 33, 46 and 53: new Chess(fen) throws unless fen describes a position
Throws(f) == f.kind # "position"

---------------------------------------------------------------------------
(* solvePuzzle, part_000 lines 51-65 *)

\* the depth without its cap
PuzzleDepthUncapped(m) == m * 2

\* line 56: Math.min(mateIn * 2, 3)
PuzzleDepth(m) == Min(m * 2, 3)

\* A solution string is kept as the sequence of its pieces: a piece is one
\* space, " ", or a run of characters without a space.
RECURSIVE split(_)
\* line 59: solution.split(' ').  Every single space ends one element and
\* starts the next, so the empty string gives one empty element and two
\* spaces in a row give an empty element between them.
split(s) ==
    IF s = <<>> THEN <<"">>
    ELSE LET front == split(SubSeq(s, 1, Len(s) - 1))
             piece == s[Len(s)]
         IN IF piece = " " THEN Append(front, "")
            ELSE [front EXCEPT ![Len(front)] = @ \o piece]

\* line 60: solutionMoves.includes(bestMove)
includes(list, x) == \E k \in 1 .. Len(list) : list[k] = x

\* the exception escapes: the promise of solvePuzzle rejects
Uncaught == [phase |-> "failed", result |-> <<>>]

\* lines 61-64: the catch block logs the error and returns false
Caught == [phase |-> "done", result |-> <<FALSE>>]

RECURSIVE Join(_)
\* the moves of a list written one after the other, a space between two
Join(ms) ==
    IF ms = <<>> THEN <<>>
    ELSE IF Len(ms) = 1 THEN <<Uci(ms[1])>>
    ELSE <<Uci(ms[1]), " ">> \o Join(Tail(ms))

\* The solution arguments explored for a position with the legal moves ms:
\* the empty string, and every legal move followed by two spaces and a
\* move that is not legal
Solutions(ms) == {<<>>, Join(ms) \o <<" ", " ", "a1a1">>}

\* The fen arguments solvePuzzle is explored with: any string that is no
\* position, and the positions of at most three pieces
PuzzleArguments ==
    {f \in FenArguments :
        Cardinality(Occupied(f.position.board)) <= 3}

\* The fen arguments explored with more than one timeLimit: any string that
\* is no position, and the positions of at most four pieces
TimedArguments ==
    {f \in FenArguments :
        Cardinality(Occupied(f.position.board)) <= 4}

---------------------------------------------------------------------------
(* The /api/ai routes, part_001 lines 128-157 *)

\* the handler answers 200 with an empty move in place of the error
ErrorAsEmptyMove(message) ==
    <<[status |-> 200, key |-> "move", value |-> ""]>>

\* lines 138-140 and 154-156: the catch block of the route
ErrorResponse(message) ==
    <<[status |-> 500, key |-> "message", value |-> message]>>

\* lines 137 and 153: res.status(200).json({ move }) / ({ evaluation })
OkResponse(key, value) == <<[status |-> 200, key |-> key, value |-> value]>>

\* lines 132-134 and 148-150
BadRequest ==
    <<[status |-> 400, key |-> "message", value |-> "FEN string is required"]>>

---------------------------------------------------------------------------
(* The state machine *)

NoValue == <<>>

\* a request arrives: its fen, depth and timeLimit, and the random source
Arrival(fens, depths, streams, limits) ==
    /\ fen \in fens
    /\ root = fen.position
    /\ legal = moves(root)
    /\ chess = root
    /\ depth \in depths
    /\ timeLimit \in limits
    /\ random \in [stream : streams, next : {1}]

\* no exported function has been called yet for the request
Idle ==
    /\ phase = "idle"
    /\ call = ""
    /\ stack = <<>>
    /\ ret = NoValue
    /\ result = NoValue
    /\ rootLog = <<>>
    /\ lastEval = NoValue
    /\ pruned = FALSE
    /\ mateIn = NoValue
    /\ solution = NoValue
    /\ response = NoValue
    /\ visited = 0

\* useChessGame.ts lines 35-55 and Home.tsx lines 12-13: the hook and the
\* page as mounted, no game started
Mounted ==
    /\ gameState = "not_started"
    /\ playerSide = "white"
    /\ playerMoves = 0
    /\ aiMoves = 0
    /\ playerScore = 0
    /\ aiScore = 0
    /\ freeHitAvailable = FALSE
    /\ gameId = 0
    /\ gameChess = [turn |-> "w", checkmate |-> FALSE]
    /\ inFlight = EmptyBag
    /\ patched = NoValue
    /\ showWinModal = FALSE
    /\ showPuzzleModal = FALSE

\* storage.ts lines 39-48: the store as constructed
Constructed ==
    /\ games = <<>>
    /\ moveHistory = <<>>
    /\ puzzles = <<>>
    /\ currentGameId = 1
    /\ currentMoveId = 1
    /\ currentPuzzleId = 1
    /\ handlers = EmptyBag
    /\ reply = NoValue

\* PuzzleShootoutModal.tsx lines 328-335: the dialog as mounted
ShootoutMounted ==
    /\ currentPuzzleIndex = 0
    /\ isProcessing = FALSE
    /\ userWon = FALSE
    /\ aiLost = FALSE
    /\ puzzleSolved = NoValue
    /\ pending = NoValue
    /\ asked = <<>>
    /\ answers = <<>>

\* part_005 lines 80-87: a countdown as mounted, active, with the largest
\* initialTime; the effect of lines 99-141 has set the interval
TimerMounted ==
    /\ timeRemaining = MaxTime
    /\ isActive = TRUE
    /\ timerRef = TRUE
    /\ due = 0
    /\ reached = 0
    /\ timeUps = 0

\* stockfish.ts lines 44-45: the module as loaded, no call made
WorkerLoaded ==
    /\ stockfishInstance = "none"
    /\ isStockfishReady = FALSE
    /\ messageListeners = <<>>
    /\ requests = <<>>
    /\ searches = <<>>

\* the state outside the engine and the game page, as it starts
Elsewhere ==
    /\ Constructed
    /\ ShootoutMounted
    /\ TimerMounted
    /\ WorkerLoaded

Init ==
    /\ Arrival(FenArguments, 0 .. MaxDepth, RandomStreams, {DefaultTimeLimit})
    /\ Idle
    /\ served = 0
    /\ Mounted
    /\ Elsewhere

\* one request with either timeLimit
InitTimed ==
    /\ Arrival(TimedArguments, 0 .. MaxDepth, RandomStreams, TimeLimits)
    /\ Idle
    /\ served = 0
    /\ Mounted
    /\ Elsewhere

\* the first request of a session
InitSession ==
    /\ Arrival(PuzzleArguments, 0 .. MaxDepth, RandomStreams,
               {DefaultTimeLimit})
    /\ Idle
    /\ served = 0
    /\ Mounted
    /\ Elsewhere

Mocked == random.stream = <<0>>

\* line 173: the draw of the next evaluateBoard call that gets that far
Draw == random.stream[random.next]
Drawn(c) ==
    IF isCheckmate(c) \/ isDraw(c) THEN random
    ELSE [random EXCEPT !.next = (random.next % Len(random.stream)) + 1]

\* what lastEval remembers of an evaluateBoard call
EvalRecord(c, v) ==
    <<[position |-> c, ply |-> Len(c.history), value |-> v,
       checkmate |-> isCheckmate(c), draw |-> isDraw(c)]>>

\* the loops also end once a position has been visited per second allowed
LoopOverOrTimeUp(f) ==
    f.i > Len(f.moves) \/ visited * 1000 >= timeLimit

\* lines 80, 117 and 128: a for-of loop ends when the moves are used up;
\* no loop looks at the clock
LoopOver(f) == f.i > Len(f.moves)

\* part_001 lines 132-134 and 148-150: a request without fen is answered
\* 400 and the engine is not called
RejectRequest ==
    /\ phase = "idle"
    /\ fen.kind = "missing"
    /\ response' = BadRequest
    /\ phase' = "done"
    /\ UNCHANGED <<chess, call, depth, random, stack, ret, result, root,
                   legal, rootLog, lastEval, pruned, args, visited>>
    /\ UNCHANGED <<hook, others>>

\* part_001 lines 128-141 around part_000 lines 32-38 and 68-78: the route
\* calls getStockfishMove, which runs up to findBestMove's loop
GetStockfishMove ==
    /\ phase = "idle"
    /\ fen.kind # "missing"
    /\ call' = "getStockfishMove"
    /\ IF Throws(fen)
       THEN /\ phase' = "failed"
            /\ response' = ErrorResponse("Error getting AI move")
            /\ stack' = stack
       ELSE /\ phase' = "search"
            /\ response' = response
            /\ LET color == turn(chess)
               IN stack' = <<Frame("findBestMove", chess, depth, -Infinity,
                                   Infinity, color = "w", color,
                                   SortCaptureFirst(moves(chess)), "loop",
                                   InitialBest(color))>>
    /\ UNCHANGED <<chess, depth, random, ret, result, root, legal, rootLog,
                   lastEval, pruned, args, visited>>
    /\ UNCHANGED <<hook, others>>

\* part_001 lines 144-157 around part_000 lines 45-48: evaluatePosition
EvaluatePosition ==
    /\ phase = "idle"
    /\ fen.kind # "missing"
    /\ call' = "evaluatePosition"
    /\ IF Throws(fen)
       THEN /\ phase' = "failed"
            /\ response' = ErrorResponse("Error evaluating position")
            /\ UNCHANGED <<result, lastEval, random>>
       ELSE /\ phase' = "done"
            /\ LET v == evaluateBoard(chess, Draw)
               IN /\ result' = <<v>>
                  /\ lastEval' = EvalRecord(chess, v)
                  /\ response' = OkResponse("evaluation", v)
            /\ random' = Drawn(chess)
    /\ UNCHANGED <<chess, depth, stack, ret, root, legal, rootLog, pruned,
                   args, visited>>
    /\ UNCHANGED <<hook, others>>

\* lines 51-56 and 68-78: solvePuzzle up to findBestMove's loop, or to the
\* catch block when new Chess(fen) throws
SolvePuzzle ==
    /\ phase = "idle"
    /\ fen \in PuzzleArguments
    /\ call' = "solvePuzzle"
    /\ \E m \in 1 .. MaxMateIn, s \in Solutions(legal) :
          /\ mateIn' = <<m>>
          /\ solution' = <<s>>
          /\ IF Throws(fen)
             THEN /\ phase' = Caught.phase
                  /\ result' = Caught.result
                  /\ UNCHANGED <<stack, depth>>
             ELSE /\ phase' = "search"
                  /\ result' = result
                  /\ depth' = PuzzleDepth(m)
                  /\ LET color == turn(chess)
                     IN stack' = <<Frame("findBestMove", chess, PuzzleDepth(m),
                                         -Infinity, Infinity, color = "w",
                                         color, SortCaptureFirst(moves(chess)),
                                         "loop", InitialBest(color))>>
    /\ UNCHANGED <<chess, random, ret, root, legal, rootLog, lastEval, pruned,
                   fen, timeLimit, served, response, visited>>
    /\ UNCHANGED <<hook, others>>

\* lines 82-85, 118-119, 129-130: chess.move(move) and the recursive call
MakeMove ==
    /\ phase = "search"
    /\ Top.pc = "loop"
    /\ ~LoopOver(Top)
    /\ Len(chess.history) < MaxPly
    /\ chess' = move(chess, Top.moves[Top.i])
    /\ visited' = visited + 1
    /\ LET f == Top
           callee ==
             IF f.fn = "findBestMove"
             THEN Frame("minimax", chess', f.depth - 1, -Infinity, Infinity,
                        (IF f.playerColor = "w" THEN FALSE ELSE TRUE), "",
                        <<>>, "enter", 0)
             ELSE Frame("minimax", chess', f.depth - 1, f.alpha, f.beta,
                        ~f.isMaximizing, "", <<>>, "enter", 0)
       IN stack' = Append(SetTop([f EXCEPT !.pc = "called"]), callee)
    /\ ret' = NoValue
    /\ UNCHANGED <<phase, call, depth, random, result, root, legal, rootLog,
                   lastEval, pruned, args, response>>
    /\ UNCHANGED <<hook, others>>

\* lines 109-111: the base case returns evaluateBoard(chess)
MinimaxLeaf ==
    /\ phase = "search"
    /\ Top.fn = "minimax" /\ Top.pc = "enter"
    /\ BaseCase(chess, Top.depth)
    /\ LET v == evaluateBoard(chess, Draw)
       IN /\ ret' = <<v>>
          /\ lastEval' = EvalRecord(chess, v)
    /\ random' = Drawn(chess)
    /\ stack' = Pop
    /\ UNCHANGED <<chess, phase, call, depth, result, root, legal, rootLog,
                   pruned, args, response, visited>>
    /\ UNCHANGED <<hook, others>>

\* lines 113-116 and 127: the legal moves and the running best of a node
MinimaxExpand ==
    /\ phase = "search"
    /\ Top.fn = "minimax" /\ Top.pc = "enter"
    /\ ~BaseCase(chess, Top.depth)
    /\ stack' = SetTop([Top EXCEPT
                          !.moves = moves(chess),
                          !.pc = "loop",
                          !.best = IF Top.isMaximizing THEN -Infinity
                                   ELSE Infinity])
    /\ UNCHANGED <<chess, phase, call, depth, random, ret, result, root,
                   legal, rootLog, lastEval, pruned, args, response, visited>>
    /\ UNCHANGED <<hook, others>>

\* lines 120-123 and 131-134: undo, fold the score in, cut off or go on
MinimaxUndo ==
    /\ phase = "search"
    /\ Top.fn = "minimax" /\ Top.pc = "called"
    /\ ret # NoValue
    /\ LET f == Top
           score == ret[1]
           best == IF f.isMaximizing THEN Max(f.best, score)
                   ELSE Min(f.best, score)
           alpha == IF f.isMaximizing THEN Max(f.alpha, score) ELSE f.alpha
           beta == IF f.isMaximizing THEN f.beta ELSE Min(f.beta, score)
           cut == Cutoff(alpha, beta)
       IN /\ chess' = UndoAfterCall(chess, cut)
          /\ stack' = SetTop([f EXCEPT
                                !.best = best, !.alpha = alpha, !.beta = beta,
                                !.i = f.i + 1,
                                !.pc = IF cut THEN "exit" ELSE "loop"])
          /\ pruned' = (pruned \/ (cut /\ f.i < Len(f.moves)))
    /\ ret' = NoValue
    /\ UNCHANGED <<phase, call, depth, random, result, root, legal, rootLog,
                   lastEval, args, response, visited>>
    /\ UNCHANGED <<hook, others>>

\* lines 125 and 136: return maxScore / minScore
MinimaxReturn ==
    /\ phase = "search"
    /\ Top.fn = "minimax"
    /\ \/ Top.pc = "exit"
       \/ Top.pc = "loop" /\ LoopOver(Top)
    /\ ret' = <<Top.best>>
    /\ stack' = Pop
    /\ UNCHANGED <<chess, phase, call, depth, random, result, root, legal,
                   rootLog, lastEval, pruned, args, response, visited>>
    /\ UNCHANGED <<hook, others>>

\* lines 88-94: undo and the update of the best root move
FindBestMoveUndo ==
    /\ phase = "search"
    /\ Top.fn = "findBestMove" /\ Top.pc = "called"
    /\ ret # NoValue
    /\ chess' = UndoAfterCall(chess, FALSE)
    /\ LET f == Top
           score == ret[1]
           m == f.moves[f.i]
           better == Improves(f.playerColor, score, f.best)
       IN /\ stack' = SetTop([f EXCEPT
                                !.best = IF better THEN score ELSE f.best,
                                !.bestMove = IF better THEN Uci(m)
                                             ELSE f.bestMove,
                                !.i = f.i + 1,
                                !.pc = "loop"])
          /\ rootLog' = Append(rootLog, [move |-> m, score |-> score])
    /\ ret' = NoValue
    /\ UNCHANGED <<phase, call, depth, random, result, root, legal, lastEval,
                   pruned, args, response, visited>>
    /\ UNCHANGED <<hook, others>>

\* lines 97-103, then line 41 and part_001 line 137 (getStockfishMove
\* resolves with the move and the route answers it) or lines 59-60
\* (solvePuzzle looks the move up in the solution)
FindBestMoveReturn ==
    /\ phase = "search"
    /\ Top.fn = "findBestMove" /\ Top.pc = "loop"
    /\ LoopOver(Top)
    /\ LET bestMove == Fallback(Top.bestMove, Top.moves)
       IN IF call = "solvePuzzle"
          THEN /\ result' = <<includes(split(solution[1]), bestMove)>>
               /\ response' = response
          ELSE /\ result' = <<bestMove>>
               /\ response' = OkResponse("move", bestMove)
    /\ stack' = Pop
    /\ phase' = "done"
    /\ UNCHANGED <<chess, call, depth, random, ret, root, legal, rootLog,
                   lastEval, pruned, args, visited>>
    /\ UNCHANGED <<hook, others>>

Next ==
    \/ RejectRequest
    \/ GetStockfishMove
    \/ EvaluatePosition
    \/ SolvePuzzle
    \/ MakeMove
    \/ MinimaxLeaf
    \/ MinimaxExpand
    \/ MinimaxUndo
    \/ MinimaxReturn
    \/ FindBestMoveUndo
    \/ FindBestMoveReturn

Spec == Init /\ [][Next]_vars

SpecTimed == InitTimed /\ [][Next]_vars

\* The next request of the same server process arrives once the call
\* before it has settled.  The exported functions are async without an
\* await (lines 32-65), so a call runs from its first line to its last
\* before another starts.  Everything a call works with is local to it;
\* only the random source, Math.random, goes on where it was.
NewCall ==
    /\ phase \in {"done", "failed"}
    /\ served + 1 < MaxCalls
    /\ served' = served + 1
    /\ \E f \in PuzzleArguments, d \in 0 .. MaxDepth :
          /\ fen' = f
          /\ depth' = d
          /\ root' = f.position
          /\ legal' = moves(f.position)
          /\ chess' = Construct(f, chess)
    /\ phase' = "idle"
    /\ call' = ""
    /\ stack' = <<>>
    /\ ret' = NoValue
    /\ result' = NoValue
    /\ rootLog' = <<>>
    /\ lastEval' = NoValue
    /\ pruned' = FALSE
    /\ mateIn' = NoValue
    /\ solution' = NoValue
    /\ response' = NoValue
    /\ visited' = 0
    /\ UNCHANGED <<random, timeLimit>>
    /\ UNCHANGED <<hook, others>>

NextSession ==
    \/ Next
    \/ NewCall

SpecSession == InitSession /\ [][NextSession]_vars

---------------------------------------------------------------------------
(* The game hook, client/src/hooks/useChessGame.ts.                        *)
(*                                                                         *)
(* Every handler is a closure of the render that created it: what it reads *)
(* of the state is what that render saw, and what it sets is applied after *)
(* it has run.  makeMove, makeAIMove and checkGameOver are re-created when *)
(* a value they read changes (their dependency lists, lines 231, 306 and   *)
(* 391), so a handler called from the page reads the state of the latest   *)
(* render, as it was before the handler's own updates.  A makeAIMove call  *)
(* waits for getAIMove (line 161); what runs when the move arrives still   *)
(* reads the state of the render the call was made from.  The board is     *)
(* the one thing read live: chess is mutated in place (lines 169, 239).    *)
(* Of the board the hook reads the side to move and whether it is          *)
(* checkmated; a move is an input: its score and whether it mates.         *)

\* lines 357 and 384: the six moves a side has
MoveLimit == 6

\* lib/chess calculateMoveScore, part_004 lines 37-52: the value of what
\* the move captured; a quiet move scores 0, the capture of a pawn 1
MoveScores == {0, 1}

\* lines 59-62
isPlayerTurn ==
    (IF gameChess.turn = "w" THEN "white" ELSE "black") = playerSide

\* chess.move, lines 169 and 239: the other side is to move, mated or not
Moved(c, mate) ==
    [turn |-> IF c.turn = "w" THEN "b" ELSE "w", checkmate |-> mate]

\* what the handlers of the current render read
Closure ==
    [gameState |-> gameState, gameId |-> gameId,
     playerMoves |-> playerMoves, aiMoves |-> aiMoves,
     playerScore |-> playerScore, aiScore |-> aiScore,
     freeHitAvailable |-> freeHitAvailable]

\* lib/stockfish isFoulCapture, part_003 lines 181-193, as makeAIMove calls
\* it on line 211: with the board after the move and the move's squares.
\* The square the piece left is empty, so line 193 returns false.
isFoulCapture == FALSE

\* the calls waiting once those of new have been made, in order
RECURSIVE Admit(_, _)
Admit(calls, new) ==
    IF new = <<>>
    THEN calls
    ELSE Admit(IF BagCardinality(calls) < MaxInFlight
               THEN calls (+) SetToBag({Head(new)})
               ELSE calls,
               Tail(new))

Without(calls, called) == calls (-) SetToBag({called})

\* checkGameOver past the checkmate test, lines 357-390, in closure R:
\* whether the game is over, the gameState it sets ("" for none), whether
\* it calls makeAIMove, and the body of the PATCH it sends (lines 371-378;
\* <<>> for none), made of the gameState and the scores R holds.  gameId
\* is R's, for the checkmate test.
MoveLimitReached(R) ==
    IF ~R.freeHitAvailable
       /\ R.playerMoves >= MoveLimit /\ R.aiMoves >= MoveLimit
    THEN [over |-> TRUE,
          gameState |-> IF R.playerScore > R.aiScore THEN "player_win"
                        ELSE IF R.aiScore > R.playerScore THEN "ai_win"
                        ELSE "tie",
          makeAIMove |-> FALSE,
          patch |-> IF R.gameId # 0
                    THEN <<[status |-> R.gameState,
                            playerScore |-> R.playerScore,
                            aiScore |-> R.aiScore]>>
                    ELSE <<>>,
          gameId |-> R.gameId]
    ELSE IF R.playerMoves >= MoveLimit /\ ~R.freeHitAvailable
            /\ R.aiMoves < MoveLimit
    THEN [over |-> FALSE, gameState |-> "", makeAIMove |-> TRUE,
          patch |-> <<>>, gameId |-> R.gameId]
    ELSE [over |-> FALSE, gameState |-> "", makeAIMove |-> FALSE,
          patch |-> <<>>, gameId |-> R.gameId]

\* checkGameOver, lines 341-391, with board c; limit is what lines 357-390
\* do in the closure it runs in
checkGameOver(limit, c) ==
    IF c.checkmate
    THEN LET winner == IF c.turn = "w" THEN "ai_win" ELSE "player_win"
         IN  [over |-> TRUE,
              gameState |-> winner,
              makeAIMove |-> FALSE,
              patch |-> IF limit.gameId # 0 THEN <<[status |-> winner]>>
                        ELSE <<>>,
              gameId |-> limit.gameId]
    ELSE limit

\* makeAIMove up to its await, lines 156-161: the call made from closure R
\* with board c asks for a move of the side to move in c, unless R's game
\* is not in progress or has no id.  The call that line 293 delays by half
\* a second is taken to start at once.  What the call does of R once the
\* move has arrived is settled now: the test of line 210 and the
\* checkGameOver of line 216.
Called(R, c) ==
    IF R.gameState # "in_progress" \/ R.gameId = 0
    THEN <<>>
    ELSE <<[turn |-> c.turn,
            sixth |-> R.aiMoves = 5,
            limit |-> MoveLimitReached(R)]>>

\* the makeAIMove that checkGameOver calls (line 386) from inside a call:
\* the same closure, the board of the moment
CalledAgain(called, c) == <<[called EXCEPT !.turn = c.turn]>>

\* line 216 not reached: checkGameOver is not called
NotChecked ==
    [over |-> FALSE, gameState |-> "", makeAIMove |-> FALSE,
     patch |-> <<>>, gameId |-> gameId]

\* pages/Home.tsx lines 40-55: the effects of the page, run after a render
\* in which gameState has changed
HomeEffects ==
    /\ showWinModal' =
          IF gameState' = gameState THEN showWinModal
          ELSE IF gameState' \in {"player_win", "ai_win"} THEN TRUE
          ELSE IF gameState' = "in_progress" THEN FALSE
          ELSE showWinModal
    /\ showPuzzleModal' =
          IF gameState' = gameState THEN showPuzzleModal
          ELSE IF gameState' = "tie" THEN TRUE
          ELSE IF gameState' = "in_progress" THEN FALSE
          ELSE showPuzzleModal

\* what a checkGameOver that answered over leaves: the gameState, the
\* request sent, and the page rendered with them
SetGameState(over) ==
    /\ gameState' = IF over.gameState = "" THEN gameState ELSE over.gameState
    /\ patched' = IF over.patch = <<>> THEN patched ELSE over.patch[1]
    /\ HomeEffects

\* startNewGame up to its await, lines 99-128.  It is created once (line
\* 153), so the makeAIMove of line 143 is the one of the first render,
\* whose gameState is "not_started": it returns on line 157.  One game is
\* followed.
StartNewGame ==
    /\ gameState = "not_started"
    /\ \E side \in {"white", "black"} : playerSide' = side
    /\ gameState' = "in_progress"
    /\ playerMoves' = 0
    /\ aiMoves' = 0
    /\ playerScore' = 0
    /\ aiScore' = 0
    /\ freeHitAvailable' = FALSE
    /\ gameChess' = [turn |-> "w", checkmate |-> FALSE]
    /\ inFlight' = Admit(EmptyBag, Called(Closure, gameChess'))
    /\ HomeEffects
    /\ UNCHANGED <<gameId, patched, engine, others>>

\* startNewGame after its await, lines 131-133: the server has made the
\* game.  When the request fails (line 145) the id stays null.
GameCreated ==
    /\ gameState = "in_progress"
    /\ gameId = 0
    /\ gameId' = 1
    /\ UNCHANGED <<gameState, playerSide, playerMoves, aiMoves, playerScore,
                   aiScore, freeHitAvailable, gameChess, inFlight, patched,
                   showWinModal, showPuzzleModal, engine, others>>

\* makeMove, lines 234-306.  A mated side has no move: chess.move throws
\* and line 304 returns false.
PlayerMove ==
    /\ gameState = "in_progress"
    /\ isPlayerTurn
    /\ gameId # 0
    /\ ~gameChess.checkmate
    /\ playerMoves < MaxMoves
    /\ \E points \in MoveScores, mate \in BOOLEAN :
          LET R == Closure
              c == Moved(gameChess, mate)
              over == checkGameOver(MoveLimitReached(R), c)
          IN  /\ playerScore + points <= MaxScore
              /\ gameChess' = c
              /\ playerScore' = playerScore + points
              /\ playerMoves' = playerMoves + 1
              /\ SetGameState(over)
              /\ inFlight' =
                    Admit(inFlight,
                          (IF over.makeAIMove THEN Called(R, c) ELSE <<>>)
                          \o (IF ~over.over THEN Called(R, c) ELSE <<>>))
    /\ UNCHANGED <<playerSide, aiMoves, aiScore, freeHitAvailable, gameId,
                   engine, others>>

\* getAIMove, part_003 lines 11-87, answers with a move of the side to move
\* in the position sent, from the server or, failing that, from the legal
\* moves; it throws when there is none.  chess.move (line 169) throws on a
\* move of the side not to move.  A move found for an earlier position of
\* the same side is taken to be legal still.
Playable(called) ==
    ~gameChess.checkmate /\ called.turn = gameChess.turn

\* makeAIMove after getAIMove has answered, lines 161-222, for any of the
\* calls waiting.  Nothing here reads the gameState of the moment.  When
\* saving the move fails (line 198) the rest is skipped (line 223).
AIMoveArrives ==
    /\ aiMoves < MaxMoves
    /\ \E called \in BagToSet(inFlight), points \in MoveScores,
          mate \in BOOLEAN, saved \in BOOLEAN :
          LET c == Moved(gameChess, mate)
              over == IF saved THEN checkGameOver(called.limit, c)
                      ELSE NotChecked
          IN  /\ Playable(called)
              /\ aiScore + points <= MaxScore
              /\ gameChess' = c
              /\ aiScore' = aiScore + points
              /\ aiMoves' = aiMoves + 1
              /\ freeHitAvailable' =
                    IF saved /\ called.sixth /\ points > 0
                    THEN isFoulCapture
                    ELSE freeHitAvailable
              /\ SetGameState(over)
              /\ inFlight' =
                    Admit(Without(inFlight, called),
                          IF over.makeAIMove THEN CalledAgain(called, c)
                          ELSE <<>>)
    /\ UNCHANGED <<playerSide, playerMoves, playerScore, gameId, engine,
                   others>>

\* makeAIMove when getAIMove or chess.move throws, lines 161, 169 and
\* 223-230
AIMoveFails ==
    /\ \E called \in BagToSet(inFlight) :
          /\ ~Playable(called)
          /\ inFlight' = Without(inFlight, called)
    /\ UNCHANGED <<gameState, playerSide, playerMoves, aiMoves, playerScore,
                   aiScore, freeHitAvailable, gameId, gameChess, patched,
                   showWinModal, showPuzzleModal, engine, others>>

\* handleTimeUp, lines 74-96: the countdown of the side to move has run
\* out.  The timer runs while the game is in progress (line 68).
TimeUp ==
    /\ gameState = "in_progress"
    /\ playerMoves < MaxMoves
    /\ aiMoves < MaxMoves
    /\ IF isPlayerTurn
       THEN /\ playerScore' = Max(0, playerScore - 1)
            /\ playerMoves' = playerMoves + 1
            /\ UNCHANGED <<aiScore, aiMoves>>
       ELSE /\ aiScore' = Max(0, aiScore - 1)
            /\ aiMoves' = aiMoves + 1
            /\ UNCHANGED <<playerScore, playerMoves>>
    /\ LET R == Closure
           over == checkGameOver(MoveLimitReached(R), gameChess)
       IN  /\ SetGameState(over)
           /\ inFlight' =
                 Admit(inFlight,
                       (IF over.makeAIMove THEN Called(R, gameChess)
                        ELSE <<>>)
                       \o (IF ~isPlayerTurn THEN Called(R, gameChess)
                           ELSE <<>>))
    /\ UNCHANGED <<playerSide, freeHitAvailable, gameId, gameChess, engine,
                   others>>

\* resignGame, lines 394-405
ResignGame ==
    /\ gameState = "in_progress"
    /\ gameState' = "ai_win"
    /\ patched' = IF gameId # 0 THEN [status |-> "ai_win"] ELSE patched
    /\ HomeEffects
    /\ UNCHANGED <<playerSide, playerMoves, aiMoves, playerScore, aiScore,
                   freeHitAvailable, gameId, gameChess, inFlight, engine,
                   others>>

\* pages/Home.tsx lines 110 and 119: the onClose of a dialog that is open
CloseModal ==
    /\ \/ showWinModal /\ showWinModal' = FALSE /\ UNCHANGED showPuzzleModal
       \/ showPuzzleModal /\ showPuzzleModal' = FALSE
          /\ UNCHANGED showWinModal
    /\ UNCHANGED <<gameState, playerSide, playerMoves, aiMoves, playerScore,
                   aiScore, freeHitAvailable, gameId, gameChess, inFlight,
                   patched, engine, others>>

\* the page with no request to the engine under way
InitGame ==
    /\ Arrival({[kind |-> "missing", position |-> NoPosition]}, {0},
               {<<0>>}, {DefaultTimeLimit})
    /\ Idle
    /\ served = 0
    /\ Mounted
    /\ Elsewhere

NextGame ==
    \/ StartNewGame
    \/ GameCreated
    \/ PlayerMove
    \/ AIMoveArrives
    \/ AIMoveFails
    \/ TimeUp
    \/ ResignGame
    \/ CloseModal

SpecGame == InitGame /\ [][NextGame]_vars

---------------------------------------------------------------------------
(* The record store, server/storage.ts, and its routes, part_001.          *)
(*                                                                         *)
(* A record keeps the fields the routes read or write.  Every storage      *)
(* method is async: a route that awaits one gives way to the other         *)
(* handlers that are running, and goes on with what it had read.           *)

\* { ...game, ...updates }, storage.ts lines 93 and 129
Merge(record, updates) ==
    [f \in DOMAIN record \cup DOMAIN updates |->
        IF f \in DOMAIN updates THEN updates[f] ELSE record[f]]

\* storage.ts lines 69-83, with id the value of currentGameId
createGame(id, insertGame) ==
    games @@ (id :> [id |-> id, status |-> insertGame.status,
                     playerScore |-> 0, aiScore |-> 0,
                     playerMoves |-> 0, aiMoves |-> 0])

\* storage.ts lines 89-96: the games after the call
updateGame(id, updates) ==
    IF id \notin DOMAIN games
    THEN games
    ELSE [games EXCEPT ![id] = Merge(games[id], updates)]

\* storage.ts lines 113-118, with id the value of currentPuzzleId
createPuzzle(id, insertPuzzle) ==
    puzzles @@ (id :> [id |-> id, gameId |-> insertPuzzle.gameId,
                       aiSolved |-> FALSE])

\* storage.ts lines 120-123: the keys of the puzzles of the game
getPuzzlesByGameId(game) ==
    {k \in DOMAIN puzzles : puzzles[k].gameId = game}

\* storage.ts lines 125-132: the puzzles after the call
updatePuzzle(id, updates) ==
    IF id \notin DOMAIN puzzles
    THEN puzzles
    ELSE [puzzles EXCEPT ![id] = Merge(puzzles[id], updates)]

\* bodies of PATCH /api/games/:id: the route passes req.body to updateGame
\* as it came (part_001 line 61)
PatchBodies == {[status |-> "tie"], [id |-> MaxGames + 1]}

\* the ids a request may name: those handed out, and one more
GameIds == 1 .. MaxGames + 1
PuzzleIds == 1 .. MaxPuzzles + 1

\* POST /api/games, part_001 lines 21-33
PostGames ==
    /\ currentGameId <= MaxGames
    /\ games' = createGame(currentGameId, [status |-> "in_progress"])
    /\ currentGameId' = currentGameId + 1
    /\ reply' = [route |-> "games", status |-> 201, id |-> currentGameId]
    /\ UNCHANGED <<moveHistory, puzzles, currentMoveId, currentPuzzleId,
                   handlers>>
    /\ UNCHANGED notStore

\* PATCH /api/games/:id, part_001 lines 52-66
PatchGames ==
    /\ \E id \in GameIds, body \in PatchBodies :
          IF id \notin DOMAIN games
          THEN /\ reply' = [route |-> "patch", status |-> 404]
               /\ UNCHANGED games
          ELSE /\ games' = updateGame(id, body)
               /\ reply' = [route |-> "patch", status |-> 200, id |-> id]
    /\ UNCHANGED <<moveHistory, puzzles, currentGameId, currentMoveId,
                   currentPuzzleId, handlers>>
    /\ UNCHANGED notStore

\* part_001 lines 104-107: what the moves route keeps of the game it read
Read(game) ==
    [playerMoves |-> game.playerMoves, aiMoves |-> game.aiMoves,
     playerScore |-> game.playerScore, aiScore |-> game.aiScore]

\* POST /api/games/:id/moves up to its second await, part_001 lines 88-101:
\* the game is read and the move parsed
PostMoves ==
    /\ currentMoveId + BagCardinality(handlers) <= MaxRecorded
    /\ \E id \in GameIds, isPlayer \in BOOLEAN, points \in MoveScores :
          IF id \notin DOMAIN games
          THEN /\ reply' = [route |-> "moves", status |-> 404]
               /\ UNCHANGED handlers
          ELSE /\ handlers' =
                     handlers (+) SetToBag({[gameId |-> id,
                                             isPlayer |-> isPlayer,
                                             points |-> points,
                                             game |-> Read(games[id]),
                                             move |-> 0]})
               /\ UNCHANGED reply
    /\ UNCHANGED <<games, moveHistory, puzzles, currentGameId,
                   currentMoveId, currentPuzzleId>>
    /\ UNCHANGED notStore

\* part_001 line 101, storage.ts lines 99-104: createMoveHistory, for any
\* handler waiting for it
MoveCreated ==
    /\ \E h \in BagToSet(handlers) :
          /\ h.move = 0
          /\ moveHistory' = Append(moveHistory, [id |-> currentMoveId,
                                     gameId |-> h.gameId,
                                     isPlayer |-> h.isPlayer,
                                     points |-> h.points])
          /\ currentMoveId' = currentMoveId + 1
          /\ handlers' = (handlers (-) SetToBag({h}))
                         (+) SetToBag({[h EXCEPT !.move = currentMoveId]})
    /\ UNCHANGED <<games, puzzles, currentGameId, currentPuzzleId, reply>>
    /\ UNCHANGED notStore

\* part_001 lines 103-118: updateGame with the counts and scores of the
\* game as the handler read it, and the answer
MoveAnswered ==
    /\ \E h \in BagToSet(handlers) :
          /\ h.move # 0
          /\ games' =
                updateGame(h.gameId,
                    [playerMoves |-> IF h.isPlayer THEN h.game.playerMoves + 1
                                     ELSE h.game.playerMoves,
                     aiMoves |-> IF ~h.isPlayer THEN h.game.aiMoves + 1
                                 ELSE h.game.aiMoves,
                     playerScore |-> IF h.isPlayer
                                     THEN h.game.playerScore + h.points
                                     ELSE h.game.playerScore,
                     aiScore |-> IF ~h.isPlayer
                                 THEN h.game.aiScore + h.points
                                 ELSE h.game.aiScore])
          /\ handlers' = handlers (-) SetToBag({h})
          /\ reply' = [route |-> "moves", status |-> 201, id |-> h.gameId]
    /\ UNCHANGED <<moveHistory, puzzles, currentGameId, currentMoveId,
                   currentPuzzleId>>
    /\ UNCHANGED notStore

\* POST /api/games/:id/puzzles, part_001 lines 160-183
PostPuzzles ==
    /\ currentPuzzleId <= MaxPuzzles
    /\ \E id \in GameIds :
          IF id \notin DOMAIN games
          THEN /\ reply' = [route |-> "puzzles", status |-> 404]
               /\ UNCHANGED <<puzzles, currentPuzzleId>>
          ELSE /\ puzzles' = createPuzzle(currentPuzzleId, [gameId |-> id])
               /\ currentPuzzleId' = currentPuzzleId + 1
               /\ reply' = [route |-> "puzzles", status |-> 201,
                            id |-> currentPuzzleId]
    /\ UNCHANGED <<games, moveHistory, currentGameId, currentMoveId,
                   handlers>>
    /\ UNCHANGED notStore

\* POST /api/puzzles/:id/solve, part_001 lines 203-222; solved is what
\* solvePuzzle answers for the puzzle
PostSolve ==
    /\ \E id \in PuzzleIds, solved \in BOOLEAN :
          IF id \notin getPuzzlesByGameId(1)
          THEN /\ reply' = [route |-> "solve", status |-> 404,
                            puzzleId |-> id]
               /\ UNCHANGED puzzles
          ELSE /\ puzzles' = updatePuzzle(id, [aiSolved |-> solved])
               /\ reply' = [route |-> "solve", status |-> 200,
                            puzzleId |-> id, solved |-> solved]
    /\ UNCHANGED <<games, moveHistory, currentGameId, currentMoveId,
                   currentPuzzleId, handlers>>
    /\ UNCHANGED notStore

\* no request to the engine, no game on the page
Unused ==
    /\ Arrival({[kind |-> "missing", position |-> NoPosition]}, {0},
               {<<0>>}, {DefaultTimeLimit})
    /\ Idle
    /\ served = 0
    /\ Mounted

InitStore ==
    /\ Unused
    /\ Elsewhere

NextStore ==
    \/ PostGames
    \/ PatchGames
    \/ PostMoves
    \/ MoveCreated
    \/ MoveAnswered
    \/ PostPuzzles
    \/ PostSolve

SpecStore == InitStore /\ [][NextStore]_vars

---------------------------------------------------------------------------
(* The puzzle shootout, components/modals/PuzzleShootoutModal.tsx lines    *)
(* 295-705, for the dialog of a game that has an id.                       *)
(*                                                                         *)
(* submitPuzzle and the solvePuzzle it calls are closures of the render    *)
(* the button was pressed in.  The button is disabled while isProcessing   *)
(* (line 629) and the editor is not rendered once userWon or aiLost (lines *)
(* 534 and 546).  Of the countdown the dialog sees its onTimeUp, which     *)
(* useTimer calls when the 15 seconds it counts while isProcessing have    *)
(* run out.                                                                *)

\* line 492: the puzzles the AI has to solve
ShootoutPuzzles == 5

\* line 492, with index the currentPuzzleIndex of the closure
SolvedAllOneLate(index) == index >= ShootoutPuzzles

SolvedAll(index) == index + 1 >= ShootoutPuzzles

\* submitPuzzle up to its first await, lines 430-443
SubmitPuzzle ==
    /\ ~userWon
    /\ ~aiLost
    /\ ~isProcessing
    /\ Len(asked) < MaxSubmits
    /\ isProcessing' = TRUE
    /\ pending' = [stage |-> "create", index |-> currentPuzzleIndex]
    /\ UNCHANGED <<currentPuzzleIndex, userWon, aiLost, puzzleSolved, asked,
                   answers>>
    /\ UNCHANGED notShootout

\* lines 443-449 and 466-468: the puzzle is created and solvePuzzle asks
\* the server to solve it
PuzzleCreated ==
    /\ pending # NoValue
    /\ pending.stage = "create"
    /\ asked' = Append(asked, Len(asked) + 1)
    /\ pending' = [pending EXCEPT !.stage = "solve"]
    /\ UNCHANGED <<currentPuzzleIndex, isProcessing, userWon, aiLost,
                   puzzleSolved, answers>>
    /\ UNCHANGED notShootout

\* lines 451-459 and 513-520: a request has failed
RequestFails ==
    /\ pending # NoValue
    /\ pending' = NoValue
    /\ isProcessing' = FALSE
    /\ UNCHANGED <<currentPuzzleIndex, userWon, aiLost, puzzleSolved, asked,
                   answers>>
    /\ UNCHANGED notShootout

\* solvePuzzle after its await, lines 470-512
SolveAnswered ==
    /\ pending # NoValue
    /\ pending.stage = "solve"
    /\ \E solved \in BOOLEAN :
          /\ answers' = Append(answers, solved)
          /\ puzzleSolved' = <<solved>>
          /\ IF ~solved
             THEN /\ userWon' = TRUE
                  /\ UNCHANGED <<currentPuzzleIndex, aiLost>>
             ELSE /\ currentPuzzleIndex' = pending.index + 1
                  /\ aiLost' = IF SolvedAll(pending.index) THEN TRUE
                               ELSE aiLost
                  /\ UNCHANGED userWon
    /\ isProcessing' = FALSE
    /\ pending' = NoValue
    /\ UNCHANGED asked
    /\ UNCHANGED notShootout

\* onTimeUp, lines 344-350
ShootoutTimeUp ==
    /\ isProcessing
    /\ userWon' = TRUE
    /\ puzzleSolved' = <<FALSE>>
    /\ isProcessing' = FALSE
    /\ UNCHANGED <<currentPuzzleIndex, aiLost, pending, asked, answers>>
    /\ UNCHANGED notShootout

InitShootout ==
    /\ Unused
    /\ Elsewhere

NextShootout ==
    \/ SubmitPuzzle
    \/ PuzzleCreated
    \/ RequestFails
    \/ SolveAnswered
    \/ ShootoutTimeUp

SpecShootout == InitShootout /\ [][NextShootout]_vars

---------------------------------------------------------------------------
(* The countdown, hooks/useTimer, part_005 lines 72-170 (the later of the  *)
(* two versions in the file).                                              *)
(*                                                                         *)
(* The effect of lines 99-141 runs after every render in which isActive,   *)
(* timeRemaining or onTimeUp has changed: it clears the interval and sets  *)
(* a new one when the timer is active with time remaining.  A tick comes a *)
(* second after the interval was set, the onTimeUp of line 119 fifty       *)
(* milliseconds after the tick that asked for it: it is due before any     *)
(* later tick, but not before what the page does in between.               *)

\* lines 107-132: whether the effect leaves an interval running
Running(active, time) == active /\ time > 0

\* the tick of the interval, lines 109-130
Tick ==
    /\ timerRef
    /\ due = 0
    /\ IF timeRemaining <= 1
       THEN /\ reached < MaxCountdowns
            /\ timeRemaining' = 0
            /\ reached' = reached + 1
            /\ due' = due + 1
       ELSE /\ timeRemaining' = timeRemaining - 1
            /\ UNCHANGED <<reached, due>>
    /\ UNCHANGED timeUps
    /\ timerRef' = Running(isActive, timeRemaining')
    /\ UNCHANGED isActive
    /\ UNCHANGED notTimer

\* the timeout of lines 119-123: onTimeUp is called
TimeUpCalled ==
    /\ due > 0
    /\ due' = due - 1
    /\ timeUps' = timeUps + 1
    /\ UNCHANGED <<timeRemaining, isActive, timerRef, reached>>
    /\ UNCHANGED notTimer

\* resetTimer, lines 149-167.  When the time set is the time remaining
\* nothing of the hook changes: the interval cleared on line 155 is set
\* again only if the caller renders (rendered).
ResetTimer ==
    /\ \E newTime \in -1 .. MaxTime, rendered \in BOOLEAN :
          LET validTime == Max(0, newTime)
          IN  /\ timeRemaining' = validTime
              /\ timerRef' = IF validTime = timeRemaining /\ ~rendered
                             THEN FALSE
                             ELSE Running(isActive, validTime)
    /\ UNCHANGED <<isActive, due, reached, timeUps>>
    /\ UNCHANGED notTimer

\* the caller renders with another isActive, lines 82 and 99-141
SetActive ==
    /\ isActive' = ~isActive
    /\ timerRef' = Running(isActive', timeRemaining)
    /\ UNCHANGED <<timeRemaining, due, reached, timeUps>>
    /\ UNCHANGED notTimer

InitTimer ==
    /\ Unused
    /\ Elsewhere

NextTimer ==
    \/ Tick
    \/ TimeUpCalled
    \/ ResetTimer
    \/ SetActive

SpecTimer == InitTimer /\ [][NextTimer]_vars

---------------------------------------------------------------------------
(* The client engine, client/src/lib/stockfish.ts lines 1-180.             *)
(*                                                                         *)
(* One engine instance serves every getAIMove call.  A move is known by    *)
(* the position it was computed for.  The engine answers each go with one  *)
(* bestmove message, in the order of the go commands, and a message is     *)
(* handed to every listener registered (lines 73-77).  Calls that await    *)
(* the import of the engine go on together when it has loaded, before any  *)
(* message of the engine is handled.                                       *)

\* the positions getAIMove is called with
ClientFens == {"fenA", "fenB"}

\* no move: '' (line 121), or a promise not resolved
NoMove == ""

\* the listener of lines 123-135, registered by request r, handed message
\* m, a bestmove of four or five characters: bestMove is set and the
\* promise resolved; a promise resolved keeps its value
Listen(r, m) ==
    [r EXCEPT !.bestMove = m,
              !.resolved = IF r.resolved = NoMove THEN m ELSE r.resolved]

\* getAIMove and initStockfish up to the first await, lines 113-116 and
\* 47-51, or on to the wait for readiness, lines 100-108
GetAIMove ==
    /\ Len(requests) < MaxRequests
    /\ stockfishInstance # "failed"
    /\ \E f \in ClientFens :
          requests' =
             Append(requests,
                    [fen |-> f,
                     stage |-> IF stockfishInstance = "none" THEN "loading"
                               ELSE "polling",
                     bestMove |-> NoMove, resolved |-> NoMove])
    /\ UNCHANGED <<stockfishInstance, isStockfishReady, messageListeners,
                   searches>>
    /\ UNCHANGED notWorker

\* initStockfish after the import, lines 51-91, for the calls that wait
\* for it, in the order they were made: each sets the instance, wraps
\* listen and sets messageListeners to [] (line 81)
Loaded ==
    /\ \E i \in 1 .. Len(requests) : requests[i].stage = "loading"
    /\ stockfishInstance' = "loaded"
    /\ messageListeners' = <<>>
    /\ requests' = [i \in 1 .. Len(requests) |->
                       IF requests[i].stage = "loading"
                       THEN [requests[i] EXCEPT !.stage = "polling"]
                       ELSE requests[i]]
    /\ UNCHANGED <<isStockfishReady, searches>>
    /\ UNCHANGED notWorker

\* the import has failed: getStockfishEngine answers null (lines 21-28),
\* initStockfish returns (line 55) and the calls fall back to the server
\* (lines 171-180), which answers each for its own position
LoadFails ==
    /\ stockfishInstance = "none"
    /\ \E i \in 1 .. Len(requests) : requests[i].stage = "loading"
    /\ stockfishInstance' = "failed"
    /\ requests' = [i \in 1 .. Len(requests) |->
                       [requests[i] EXCEPT !.stage = "done",
                                           !.resolved = requests[i].fen]]
    /\ UNCHANGED <<isStockfishReady, messageListeners, searches>>
    /\ UNCHANGED notWorker

\* the engine's readyok, lines 67-70
ReadyOk ==
    /\ stockfishInstance = "loaded"
    /\ ~isStockfishReady
    /\ isStockfishReady' = TRUE
    /\ UNCHANGED <<stockfishInstance, messageListeners, requests, searches>>
    /\ UNCHANGED notWorker

\* getAIMove once initStockfish has resolved, lines 118-168: the listener
\* is added, the position and the go command posted
Search ==
    /\ isStockfishReady
    /\ \E i \in 1 .. Len(requests) :
          /\ requests[i].stage = "polling"
          /\ messageListeners' = Append(messageListeners, i)
          /\ searches' = Append(searches, requests[i].fen)
          /\ requests' = [requests EXCEPT ![i].stage = "waiting"]
    /\ UNCHANGED <<stockfishInstance, isStockfishReady>>
    /\ UNCHANGED notWorker

\* the engine's bestmove for the oldest go, handed to every listener
BestMove ==
    /\ searches # <<>>
    /\ requests' =
          [i \in 1 .. Len(requests) |->
              IF \E k \in 1 .. Len(messageListeners) : messageListeners[k] = i
              THEN [Listen(requests[i], Head(searches))
                       EXCEPT !.stage = "done"]
              ELSE requests[i]]
    /\ searches' = Tail(searches)
    /\ UNCHANGED <<stockfishInstance, isStockfishReady, messageListeners>>
    /\ UNCHANGED notWorker

\* the timeout of lines 149-168, with no bestmove seen by the request: the
\* server, or failing it a random legal move, answers for the request's
\* own position
SearchTimeout ==
    /\ \E i \in 1 .. Len(requests) :
          /\ requests[i].stage = "waiting"
          /\ requests[i].bestMove = NoMove
          /\ requests' = [requests EXCEPT ![i].stage = "done",
                                          ![i].resolved = requests[i].fen]
    /\ UNCHANGED <<stockfishInstance, isStockfishReady, messageListeners,
                   searches>>
    /\ UNCHANGED notWorker

InitWorker ==
    /\ Unused
    /\ Elsewhere

NextWorker ==
    \/ GetAIMove
    \/ Loaded
    \/ LoadFails
    \/ ReadyOk
    \/ Search
    \/ BestMove
    \/ SearchTimeout

SpecWorker == InitWorker /\ [][NextWorker]_vars

---------------------------------------------------------------------------
(* Properties *)

Searching == call = "getStockfishMove"
Returned == Searching /\ phase = "done"
RootMoves == SortCaptureFirst(legal)

\* C1: apply/undo discipline.  Whenever a loop of findBestMove or minimax
\* stands between two sibling moves, or has been left (by running out of
\* moves or by a cutoff), the position equals the position that call was
\* entered with; when findBestMove has returned, the position equals the
\* position it was called with.
ApplyUndoDiscipline ==
    /\ (phase = "search" /\ Top.pc \in {"loop", "exit"}) => chess = Top.entry
    /\ (phase = "search") => stack[1].entry = root
    /\ Returned => chess = root

\* a cutoff has just left a loop with siblings unsearched, a capture among
\* the moves undone, and the position is the one the call was entered with
CutoffRestored ==
    /\ phase = "search"
    /\ Top.pc = "exit"
    /\ Top.i <= Len(Top.moves)
    /\ \E k \in 1 .. (Top.i - 1) : IsCapture(Top.moves[k])
    /\ chess = Top.entry

\* C2: with at least one legal move and depth >= 1 the search returns a
\* non-empty string, the from + to + promotion of a legal move of the root.
ReturnsLegalMove ==
    (Returned /\ depth >= 1 /\ legal # <<>>) =>
        /\ result[1] # ""
        /\ \E k \in 1 .. Len(legal) :
              LET m == legal[k]
              IN result[1] =
                   SquareName(m.from) \o SquareName(m.to) \o m.promotion

\* the search has returned a promotion, five characters long
ReturnedPromotion ==
    Returned /\ depth >= 1 /\ result # NoValue /\ Len(result[1]) = 5

\* C3: with no legal move the search returns the empty move, applies no move
\* and evaluates nothing.
NoMovesGivesEmptyMove ==
    (Searching /\ legal = <<>>) =>
        /\ chess = root
        /\ lastEval = NoValue
        /\ rootLog = <<>>
        /\ Len(stack) <= 1
        /\ phase = "done" => result = <<"">>

\* the search has returned for a checkmated and for a stalemated side
ReturnedWithoutMoves ==
    Returned /\ legal = <<>> /\ result = <<"">>

\* the best of a set of scores for the side that chooses
BestScore(playerColor, S) ==
    IF playerColor = "w" THEN CHOOSE x \in S : \A y \in S : x >= y
    ELSE CHOOSE x \in S : \A y \in S : x <= y

\* the first position of a sequence of scores that holds the best score
FirstBest(playerColor, scores) ==
    LET best == BestScore(playerColor,
                          {scores[k] : k \in 1 .. Len(scores)})
    IN CHOOSE k \in 1 .. Len(scores) :
          scores[k] = best /\ \A j \in 1 .. (k - 1) : scores[j] # best

LoggedScores == [k \in 1 .. Len(rootLog) |-> rootLog[k].score]

\* C4: tie-break.  The root moves are scored in the capture-first order, and
\* after each of them the running best move is the first of the moves scored
\* so far that holds the best score: an equal later score never replaces it.
\* The move returned is that first best move.
TieBreakKeepsFirst ==
    (Searching /\ rootLog # <<>>) =>
        LET first == FirstBest(root.turn, LoggedScores)
        IN /\ \A k \in 1 .. Len(rootLog) : rootLog[k].move = RootMoves[k]
           /\ phase = "search" =>
                 /\ stack[1].best = rootLog[first].score
                 /\ stack[1].bestMove = Uci(rootLog[first].move)
           /\ phase = "done" => result = <<Uci(rootLog[first].move)>>

\* the search has returned with a later root move scoring exactly the best
\* score, short of a mate or a draw, and has kept the earlier move
TieKeptFirst ==
    /\ Returned
    /\ depth >= 1
    /\ rootLog # <<>>
    /\ LET first == FirstBest(root.turn, LoggedScores)
       IN /\ \E k \in (first + 1) .. Len(rootLog) :
                rootLog[k].score = rootLog[first].score
          /\ rootLog[first].score \notin {0, MateScore, -MateScore}
          /\ result = <<Uci(rootLog[first].move)>>

\* evaluateBoard, random term 0, of the position after each root move
DepthOneScores ==
    [k \in 1 .. Len(RootMoves) |-> evaluateBoard(move(root, RootMoves[k]), 0)]

DepthOneMove == Uci(RootMoves[FirstBest(root.turn, DepthOneScores)])

\* C5: with the random term fixed to 0 the depth-1 search returns the move,
\* first in capture-first order on ties, whose resulting position has the
\* largest evaluateBoard value for White and the smallest for Black.
DepthOneIsStaticBest ==
    (Returned /\ depth = 1 /\ Mocked /\ legal # <<>>) =>
        result = <<DepthOneMove>>

\* a depth-1 search for Black has returned a move that is not the first one
DepthOneBlackReturned ==
    /\ Returned /\ depth = 1 /\ Mocked
    /\ root.turn = "b"
    /\ Len(RootMoves) > 1
    /\ result = <<DepthOneMove>>
    /\ result # <<Uci(RootMoves[1])>>

\* C6: a search called with depth 0 evaluates no position deeper than one
\* ply from the root and returns the move the depth-1 search returns.
DepthZeroIsDepthOne ==
    (Searching /\ depth = 0) =>
        /\ lastEval # NoValue => lastEval[1].ply <= 1
        /\ (phase = "done" /\ Mocked /\ legal # <<>>) =>
              result = <<DepthOneMove>>

RECURSIVE FullMinimax(_, _, _)
\* minimax without the cutoff, random term 0
FullMinimax(c, d, isMaximizing) ==
    IF BaseCase(c, d) THEN evaluateBoard(c, 0)
    ELSE LET ms == moves(c)
             vals == {FullMinimax(move(c, ms[k]), d - 1, ~isMaximizing) :
                        k \in 1 .. Len(ms)}
         IN BestScore(IF isMaximizing THEN "w" ELSE "b", vals)

FullScores ==
    [k \in 1 .. Len(RootMoves) |->
        FullMinimax(move(root, RootMoves[k]), depth - 1, root.turn = "b")]

\* C7: alpha-beta equivalence.  With the random term fixed to 0 and
\* depth >= 1 the move returned equals the move full minimax (no cutoff)
\* chooses, first in capture-first order on ties.
AlphaBetaEqualsFullMinimax ==
    (Returned /\ depth >= 1 /\ Mocked /\ legal # <<>>) =>
        result = <<Uci(RootMoves[FirstBest(root.turn, FullScores)])>>

\* a search in which a cutoff skipped moves has returned
ReturnedAfterCutoff ==
    Returned /\ depth >= 1 /\ Mocked /\ pruned /\ result # <<"">>

\* C8: capture-first ordering.  At the root no capture is scored after a
\* non-capture, and when the search returns the root moves scored are the
\* legal moves of the root, each once.
CapturesSearchedFirst ==
    Searching =>
        /\ \A j, k \in 1 .. Len(rootLog) :
              (j < k /\ IsCapture(rootLog[k].move)) =>
                  IsCapture(rootLog[j].move)
        /\ phase = "done" =>
              /\ Len(rootLog) = Len(legal)
              /\ {rootLog[k].move : k \in 1 .. Len(rootLog)}
                   = {legal[k] : k \in 1 .. Len(legal)}

\* a root whose generation order has a quiet move before a capture has
\* been searched to the end
MixedRootSearched ==
    /\ Returned
    /\ \E j, k \in 1 .. Len(legal) :
          j < k /\ NotCapture(legal[j]) /\ IsCapture(legal[k])
    /\ Len(rootLog) = Len(legal)

\* C9: evaluateBoard of a checkmate is exactly -1000 with White to move and
\* exactly +1000 with Black to move.
CheckmateScore ==
    (lastEval # NoValue /\ lastEval[1].checkmate) =>
        lastEval[1].value =
            (IF lastEval[1].position.turn = "w" THEN -100000 ELSE 100000)

\* a checkmate of White has been evaluated inside a search whose random
\* source is live
WhiteMatedEvaluated ==
    /\ lastEval # NoValue
    /\ lastEval[1].checkmate
    /\ lastEval[1].position.turn = "w"
    /\ lastEval[1].ply >= 1
    /\ ~Mocked

\* C10: evaluateBoard of a draw that is not a checkmate is 0, whatever the
\* material and the last move.
DrawScore ==
    (lastEval # NoValue /\ lastEval[1].draw
       /\ ~lastEval[1].checkmate) =>
        lastEval[1].value = 0

\* a draw has been evaluated with material on the board, a capture as the
\* last move and the random source live
UnevenDrawEvaluated ==
    /\ lastEval # NoValue
    /\ lastEval[1].draw
    /\ ~lastEval[1].checkmate
    /\ BoardScore(lastEval[1].position.board,
                  Occupied(lastEval[1].position.board)) # 0
    /\ CaptureTerm(lastEval[1].position) # 0
    /\ ~Mocked

\* the latest evaluateBoard call was on a position that is no checkmate and
\* no draw, with the random term 0
QuietEval ==
    /\ lastEval # NoValue
    /\ ~lastEval[1].checkmate
    /\ ~lastEval[1].draw
    /\ Mocked

LastMoveCaptured(c) ==
    c.history # <<>> /\ c.history[Len(c.history)].move.captured # ""

\* C11: capture bonus sign.  When the last move captured a piece, the score
\* of a position that is no checkmate and no draw is the board sum plus
\* 0.5 * the value of the captured kind with the sign of the capturing side:
\* added after a White capture, subtracted after a Black capture.
CaptureBonusFollowsCapturer ==
    (QuietEval /\ LastMoveCaptured(lastEval[1].position)) =>
        LET c == lastEval[1].position
            lastMove == c.history[Len(c.history)].move
        IN lastEval[1].value - BoardScore(c.board, Occupied(c.board))
             = Sign(lastMove.color) * 50 * PIECE_VALUES[lastMove.captured]

\* the same placement, history and clock with the other side to move
OtherToMove(c) == [c EXCEPT !.turn = Other(c.turn)]

\* the latest evaluateBoard call was on a position, no checkmate and no
\* draw, whose side to move is in check, and with the other side to move the
\* same placement is no check, no checkmate and no draw
CheckedAndUnchecked ==
    /\ QuietEval
    /\ isCheck(lastEval[1].position)
    /\ ~isCheck(OtherToMove(lastEval[1].position))
    /\ ~isGameOver(OtherToMove(lastEval[1].position))

\* C12 as stated: of two positions with the same placement and last move,
\* neither a checkmate nor a draw, one with the side to move in check and
\* one not, evaluateBoard gives different scores.
CheckBonusSeparates ==
    CheckedAndUnchecked =>
        evaluateBoard(OtherToMove(lastEval[1].position), 0)
            # lastEval[1].value

\* C12: evaluateBoard has no check term.  Of two positions with the same
\* placement and last move, neither a checkmate nor a draw, one with the
\* side to move in check and one not, it gives the same score when the
\* random term is 0.
NoCheckTerm ==
    CheckedAndUnchecked =>
        evaluateBoard(OtherToMove(lastEval[1].position), 0)
            = lastEval[1].value

\* a check that is no mate has been evaluated inside a search, with a score
\* that is not 0
CheckEvaluated ==
    /\ CheckedAndUnchecked
    /\ lastEval[1].value # 0
    /\ lastEval[1].ply >= 1

RECURSIVE SumOver(_, _)
\* the sum of f over the set S
SumOver(f, S) ==
    IF S = {} THEN 0
    ELSE LET x == CHOOSE y \in S : TRUE
         IN f[x] + SumOver(f, S \ {x})

\* the stated sum: for every occupied square material(kind) * sign(colour)
\* + 0.2 * table[rank index, flipped for Black][file] * sign(colour), with
\* pawn 1, knight 3, bishop 3, rook 5, queen 9, king 0
StatedScore(b) ==
    LET material(t) == CASE t = "p" -> 100 [] t = "n" -> 300 [] t = "b" -> 300
                         [] t = "r" -> 500 [] t = "q" -> 900 [] t = "k" -> 0
        sign(c) == IF c = "w" THEN 1 ELSE -1
        rank(s) == IF b[s].color = "w" THEN Row(s) ELSE 7 - Row(s)
        term == [s \in Occupied(b) |->
                   material(b[s].type) * sign(b[s].color)
                     + 2 * SquareTenths[rank(s) + 1][Col(s) + 1]
                         * sign(b[s].color)]
    IN SumOver(term, Occupied(b))

\* the mirror of a square, a piece, a move and a position: ranks flipped,
\* colours swapped, the other side to move
MirrorSquare(s) == Sq(7 - Row(s), Col(s))
MirrorPiece(p) == IF p = NoPiece THEN NoPiece ELSE Piece(p.type, Other(p.color))
MirrorMove(m) ==
    [m EXCEPT !.color = Other(m.color), !.from = MirrorSquare(m.from),
              !.to = MirrorSquare(m.to)]
Mirror(c) ==
    [board |-> [s \in Squares |-> MirrorPiece(c.board[MirrorSquare(s)])],
     turn |-> Other(c.turn),
     halfMoves |-> c.halfMoves,
     history |-> [k \in 1 .. Len(c.history) |->
                    [move |-> MirrorMove(c.history[k].move),
                     turn |-> Other(c.history[k].turn),
                     halfMoves |-> c.history[k].halfMoves]]]

\* C13: for a position that is no checkmate and no draw, with no capture as
\* last move and the random term 0, evaluateBoard equals the stated sum of
\* material and table values, and the colour-swapped, rank-flipped mirror of
\* the position evaluates to the opposite score.
MaterialAndTableSum ==
    (QuietEval /\ ~LastMoveCaptured(lastEval[1].position)) =>
        /\ lastEval[1].value = StatedScore(lastEval[1].position.board)
        /\ evaluateBoard(Mirror(lastEval[1].position), 0) = -lastEval[1].value

\* such a position has been evaluated with a Black piece other than the king
\* on a square of table value above 0, and its mirror scores the opposite,
\* not 0
MirrorEvaluated ==
    /\ QuietEval
    /\ ~LastMoveCaptured(lastEval[1].position)
    /\ lastEval[1].ply >= 1
    /\ \E s \in Squares :
          /\ lastEval[1].position.board[s].color = "b"
          /\ lastEval[1].position.board[s].type # "k"
          /\ SquareTenths[(7 - Row(s)) + 1][Col(s) + 1] > 0
    /\ lastEval[1].value # 0
    /\ evaluateBoard(Mirror(lastEval[1].position), 0) = -lastEval[1].value

Solving == call = "solvePuzzle" /\ ~Throws(fen)

\* C14: puzzle depth cap.  solvePuzzle runs findBestMove on the position it
\* was given, for that position's side to move, with depth 2 when mateIn is 1
\* and depth 3 when mateIn is 2 or more; no call in the search has a depth
\* above 3 and no move is applied beyond that depth.
PuzzleDepthCap ==
    Solving =>
        LET cap == IF mateIn[1] = 1 THEN 2 ELSE 3
        IN /\ depth = cap
           /\ phase = "search" =>
                 /\ stack[1].fn = "findBestMove"
                 /\ stack[1].depth = cap
                 /\ stack[1].playerColor = root.turn
                 /\ stack[1].entry = root
           /\ \A k \in 1 .. Len(stack) : stack[k].depth <= 3
           /\ Len(chess.history) <= cap
           /\ lastEval # NoValue => lastEval[1].ply <= cap

\* a puzzle with mateIn 2 or more has been searched to its end, three plies
\* deep
PuzzleSearchedThreeDeep ==
    /\ Solving
    /\ mateIn[1] >= 2
    /\ phase = "done"
    /\ lastEval # NoValue
    /\ lastEval[1].ply = 3

\* the move findBestMove came back with: the first best of the root moves
\* scored, or the empty move when there was none
SearchMove ==
    IF rootLog = <<>> THEN ""
    ELSE Uci(rootLog[FirstBest(root.turn, LoggedScores)].move)

\* the moves of a solution string: its pieces that are not white space
Listed(s) == {s[k] : k \in 1 .. Len(s)} \ {" "}

\* C15: solvePuzzle returns true if and only if the encoding of the move
\* the search returned is one of the moves listed in the solution, and the
\* position it was given is as it was.
SolvedIffListed ==
    (Solving /\ phase = "done") =>
        /\ result = <<SearchMove \in Listed(solution[1])>>
        /\ chess = root

\* C16: solvePuzzle never propagates an error.  Its promise is never
\* rejected, it resolves with true or false, and with false when
\* constructing the position throws.
NeverPropagates ==
    (call = "solvePuzzle") =>
        /\ phase # "failed"
        /\ phase = "done" => result \in {<<TRUE>>, <<FALSE>>}
        /\ Throws(fen) => (phase = "done" /\ result = <<FALSE>>)

\* solvePuzzle has been called with a string that does not parse and has
\* resolved with false
UnparseablePuzzleAnswered ==
    /\ call = "solvePuzzle"
    /\ fen.kind = "unparseable"
    /\ phase = "done"
    /\ result = <<FALSE>>

\* C17: for a string that does not parse, getStockfishMove and
\* evaluatePosition fail when the position is constructed: findBestMove,
\* minimax and evaluateBoard are not entered and no move is applied; the
\* route answers with an error status and a message, not a move or a score.
UnparseableIsErrorResponse ==
    (fen.kind = "unparseable"
       /\ call \in {"getStockfishMove", "evaluatePosition"}) =>
        /\ stack = <<>>
        /\ rootLog = <<>>
        /\ lastEval = NoValue
        /\ visited = 0
        /\ result = NoValue
        /\ phase = "failed"
        /\ response # NoValue
        /\ response[1].status = 500
        /\ response[1].key = "message"

\* the evaluate route has answered a string that does not parse
UnparseableAnswered ==
    /\ fen.kind = "unparseable"
    /\ call = "evaluatePosition"
    /\ phase = "failed"
    /\ response = ErrorResponse("Error evaluating position")

RECURSIVE RefMinimax(_, _, _, _, _, _, _)
RECURSIVE RefLoop(_, _, _, _, _, _, _, _, _, _)
\* minimax as one function, lines 107-138: the score, the next draw of the
\* random stream and the count of moves applied once the call is over; st
\* holds the next draw and the count when the call starts
RefMinimax(c, d, alpha, beta, isMaximizing, stream, st) ==
    IF BaseCase(c, d)
    THEN [score |-> evaluateBoard(c, stream[st.next]),
          next |-> IF isCheckmate(c) \/ isDraw(c) THEN st.next
                   ELSE (st.next % Len(stream)) + 1,
          visited |-> st.visited]
    ELSE RefLoop(c, moves(c), 1, d, alpha, beta, isMaximizing,
                 IF isMaximizing THEN -Infinity ELSE Infinity, stream, st)

\* the loop of minimax from its i-th move on
RefLoop(c, ms, i, d, alpha, beta, isMaximizing, best, stream, st) ==
    IF i > Len(ms)
    THEN [score |-> best, next |-> st.next, visited |-> st.visited]
    ELSE LET r == RefMinimax(move(c, ms[i]), d - 1, alpha, beta,
                             ~isMaximizing, stream,
                             [next |-> st.next, visited |-> st.visited + 1])
             b == IF isMaximizing THEN Max(best, r.score)
                  ELSE Min(best, r.score)
             a2 == IF isMaximizing THEN Max(alpha, r.score) ELSE alpha
             b2 == IF isMaximizing THEN beta ELSE Min(beta, r.score)
         IN IF b2 <= a2 THEN [r EXCEPT !.score = b]
            ELSE RefLoop(c, ms, i + 1, d, a2, b2, isMaximizing, b, stream, r)

RECURSIVE RefRootLoop(_, _, _, _, _, _, _, _, _)
\* the loop of findBestMove from its i-th move on, lines 80-103
RefRootLoop(c, ms, i, d, color, best, bestMove, stream, st) ==
    IF i > Len(ms)
    THEN [move |-> IF bestMove = "" /\ Len(ms) > 0 THEN Uci(ms[1])
                   ELSE bestMove,
          next |-> st.next, visited |-> st.visited]
    ELSE LET r == RefMinimax(move(c, ms[i]), d - 1, -Infinity, Infinity,
                             color # "w", stream,
                             [next |-> st.next, visited |-> st.visited + 1])
             better == \/ color = "w" /\ r.score > best
                       \/ color = "b" /\ r.score < best
         IN RefRootLoop(c, ms, i + 1, d, color,
                        IF better THEN r.score ELSE best,
                        IF better THEN Uci(ms[i]) ELSE bestMove, stream, r)

\* findBestMove as one function of the position, the depth and the random
\* stream: the move, and how many moves the search applied
RefFindBestMove(c, d, stream) ==
    RefRootLoop(c, SortCaptureFirst(moves(c)), 1, d, c.turn,
                IF c.turn = "w" THEN -Infinity ELSE Infinity, "", stream,
                [next |-> 1, visited |-> 0])

\* what a call resolves with when findBestMove comes back with bestMove
Resolved(bestMove) ==
    IF call = "solvePuzzle" THEN <<includes(split(solution[1]), bestMove)>>
    ELSE <<bestMove>>

\* C18: independence of search invocations.  With the random term 0, a call
\* searches the position built from its own fen argument, and what it
\* resolves with is a function of its own arguments, whatever calls the
\* process served before it.
CallsAreIndependent ==
    (Mocked /\ call # "" /\ ~Throws(fen)) =>
        /\ phase = "search" => stack[1].entry = root
        /\ (phase = "done" /\ call = "evaluatePosition") =>
              result = <<evaluateBoard(root, 0)>>
        /\ (phase = "done" /\ call # "evaluatePosition" /\ depth >= 1) =>
              result = Resolved(RefFindBestMove(root, depth, <<0>>).move)

\* a second call of the process, a search two plies deep or more for a
\* position with legal moves, has resolved
SecondCallResolved ==
    /\ served = 1
    /\ Mocked
    /\ call = "getStockfishMove"
    /\ phase = "done"
    /\ depth >= 2
    /\ legal # <<>>

\* C19: the time limit is advisory.  What getStockfishMove and solvePuzzle
\* resolve with, how many moves the search applies and how many random
\* draws it makes are functions of the position, the depth (or mateIn and
\* solution) and the random stream alone: they are the same for every
\* timeLimit, and the search ends only when its loops have run out of moves
\* or been cut off by alpha-beta.
TimeLimitAdvisory ==
    (phase = "done" /\ call \in {"getStockfishMove", "solvePuzzle"}
       /\ ~Throws(fen) /\ depth >= 1) =>
        LET r == RefFindBestMove(root, depth, random.stream)
        IN /\ result = Resolved(r.move)
           /\ visited = r.visited
           /\ random.next = r.next

\* a search with the least timeLimit has applied more moves than that limit
\* has seconds, has been cut off by alpha-beta, and has resolved
LongSearchResolved ==
    /\ call = "getStockfishMove"
    /\ phase = "done"
    /\ timeLimit = DefaultTimeLimit
    /\ visited * 1000 > timeLimit
    /\ pruned
    /\ ~Mocked

\* C20: the six-move limit.  Neither move counter of a game goes above six,
\* and once both sides have made six moves with no free hit pending the
\* game is no longer in progress.
SixMoveLimit ==
    /\ playerMoves <= MoveLimit
    /\ aiMoves <= MoveLimit
    /\ (playerMoves >= MoveLimit /\ aiMoves >= MoveLimit
            /\ ~freeHitAvailable)
          => gameState # "in_progress"

\* the searches that hand findBestMove a depth of at least one
SearchingFromOne ==
    /\ call \in {"getStockfishMove", "solvePuzzle"}
    /\ phase \in {"search", "done"}
    /\ depth >= 1

\* C23: depth bound.  During findBestMove(position, d) with d >= 1 no more
\* than d moves are applied on top of the root position, and evaluateBoard
\* is called only on positions d plies from the root or on positions where
\* the game is over nearer to it.
DepthBoundsPlies ==
    SearchingFromOne =>
        /\ Len(chess.history) <= Len(root.history) + depth
        /\ lastEval # NoValue =>
              \/ lastEval[1].ply = Len(root.history) + depth
              \/ /\ lastEval[1].ply < Len(root.history) + depth
                 /\ lastEval[1].checkmate \/ lastEval[1].draw

\* a search three deep has evaluated a position where the game was over
\* nearer to the root
EvaluatedNearerThanDepth ==
    /\ SearchingFromOne
    /\ depth = 3
    /\ lastEval # NoValue
    /\ lastEval[1].ply < Len(root.history) + depth
    /\ lastEval[1].checkmate \/ lastEval[1].draw

\* C25: no move, not solved.  For a position without a legal move
\* solvePuzzle answers false whatever the solution string, the empty one
\* included.
NoMoveNeverSolved ==
    (call = "solvePuzzle" /\ phase = "done" /\ fen.kind = "position"
       /\ legal = <<>>) =>
        result = <<FALSE>>


\* a step in which checkGameOver has ended the game on the move limit: it
\* has sent the request of lines 371-378, the one that carries the scores
EndsOnMoveLimit ==
    /\ patched' # patched
    /\ patched' # NoValue
    /\ "playerScore" \in DOMAIN patched'

\* the state the scores of the game call for
FinalByScores ==
    IF playerScore > aiScore THEN "player_win"
    ELSE IF aiScore > playerScore THEN "ai_win"
    ELSE "tie"

\* C21: when a game ends on the move limit, its final state is player_win
\* exactly when the player's accumulated score is greater than the AI's,
\* ai_win exactly when it is smaller, and tie when they are equal; a tie
\* opens the puzzle shootout and never the win dialog; the status sent to
\* the server equals that final state
MoveLimitVerdict ==
    [][EndsOnMoveLimit =>
          /\ gameState' = FinalByScores'
          /\ patched'.status = gameState'
          /\ gameState' = "tie" => showPuzzleModal' /\ ~showWinModal']_vars

\* C26: POST /api/puzzles/:id/solve answers 'Puzzle not found' only when no
\* puzzle with that id is stored: a puzzle created for any game can be
\* solved by its id
SolveFindsEveryPuzzle ==
    (reply # NoValue /\ reply.route = "solve" /\ reply.status = 404)
        => reply.puzzleId \notin DOMAIN puzzles

\* the recorded moves of a side in a game
Recorded(game, isPlayer) ==
    {i \in 1 .. Len(moveHistory) :
        moveHistory[i].gameId = game /\ moveHistory[i].isPlayer = isPlayer}

RECURSIVE Points(_)
Points(recorded) ==
    IF recorded = {}
    THEN 0
    ELSE LET i == CHOOSE j \in recorded : TRUE
         IN  moveHistory[i].points + Points(recorded \ {i})

\* C27: once the POST /api/games/:id/moves requests made have been
\* answered, in whatever order their steps ran, a game's playerMoves is
\* the number of its recorded moves with isPlayer true, aiMoves the number
\* with isPlayer false, and each side's score the sum of the points of its
\* recorded moves
MovesNeverLost ==
    handlers = EmptyBag =>
        \A k \in DOMAIN games :
            /\ games[k].playerMoves = Cardinality(Recorded(k, TRUE))
            /\ games[k].aiMoves = Cardinality(Recorded(k, FALSE))
            /\ games[k].playerScore = Points(Recorded(k, TRUE))
            /\ games[k].aiScore = Points(Recorded(k, FALSE))

\* C28: every game and every puzzle is stored under a key equal to its own
\* id field, and the keys are the ids handed out so far, each once
StoredUnderOwnId ==
    /\ \A k \in DOMAIN games : games[k].id = k
    /\ \A k \in DOMAIN puzzles : puzzles[k].id = k
    /\ DOMAIN games = 1 .. currentGameId - 1
    /\ DOMAIN puzzles = 1 .. currentPuzzleId - 1

\* the server's answer to a solve request has arrived in this step
Answered(solved) ==
    /\ Len(answers') = Len(answers) + 1
    /\ answers'[Len(answers')] = solved

OutcomesExclusive ==
    [][/\ ~(userWon' /\ aiLost')
       /\ userWon => currentPuzzleIndex' = currentPuzzleIndex]_vars

\* C30: timeRemaining is never negative; it changes only by a tick of -1
\* while the timer is active or by resetTimer, and not while the timer is
\* inactive; onTimeUp is called once for each countdown that reaches 0, and
\* never while timeRemaining is greater than 0
CountdownDiscipline ==
    [][/\ timeRemaining' >= 0
       /\ (timeRemaining' # timeRemaining /\ ~ResetTimer)
             => isActive /\ timeRemaining' = timeRemaining - 1
       /\ timeUps' + due' = reached'
       /\ timeUps' # timeUps => timeRemaining = 0]_vars

\* C24: each getAIMove call resolves with the best move computed for its
\* own position: a bestmove message produced for one call never resolves
\* another; and a call waiting for its bestmove has its listener still
\* registered, whatever initStockfish calls ran meanwhile
EachCallItsOwnMove ==
    \A i \in 1 .. Len(requests) :
        /\ requests[i].resolved # NoMove
              => requests[i].resolved = requests[i].fen
        /\ requests[i].stage = "waiting"
              => \E k \in 1 .. Len(messageListeners) : messageListeners[k] = i
=============================================================================
